---- MODULE Spec2Model ----
(***************************************************************************)
(* A model of cmdctl/overtime: the session-token service                   *)
(* (middleware/auth.go), the invite redemption flow (handlers/auth.go) and *)
(* the access gate chain wired in main.go.                                 *)
(*                                                                         *)
(* Time is counted in clock ticks; TicksPerSecond ticks make one second,   *)
(* so that the whole-second precision of the token's NumericDate claims    *)
(* differs from the precision of time.Now().                               *)
(***************************************************************************)
EXTENDS Integers, Sequences, FiniteSets, TLC

----------------------------------------------------------------------------
(* Bounds of the model *)

\* clock ticks per second: time.Now() is finer than the token's NumericDate
TicksPerSecond == 2
\* the clock stops ticking here
MaxTime == 6
\* the longest expiration duration handed to GenerateToken, in ticks
MaxDuration == 4
\* how many /register requests (page views and submissions) are served
MaxRequests == 2

----------------------------------------------------------------------------
(* models/user.go: roles and identities *)

RoleAdmin == "ADMIN"
RoleHR == "HR"
RoleEmployee == "EMPLOYEE"
Roles == {RoleAdmin, RoleHR, RoleEmployee}

\* an optional value: a nil pointer, an absent row, an unset cookie
None == {}
Some(x) == {x}
The(o) == CHOOSE x \in o : TRUE

VARIABLES
    now,        \* the host clock, in ticks (time.Now())
    jwtSecret,  \* middleware.jwtSecret, the process-wide signing secret
    tok,        \* token service: the token string at hand, None before the first
    tokIssue,   \* token service: how tok was made (identity, duration, clock reads)
    vres,       \* token service: the last ValidateToken call on tok and what it returned
    users,      \* the users table (models.User rows)
    invites,    \* the invites table (models.Invite rows)
    reqs,       \* the /register requests: each one's position, locals and response
    greq,       \* the last request served on a routed path, with what the gates did
    pcall,      \* the last call of a permission predicate of models.User, and its answer
    boot,       \* func main: its position, the JWT_SECRET it found, its writes of the secret
    entries,    \* the overtime_entries table (models.OvertimeEntry rows)
    team_supervisors  \* the team_supervisors table (models.TeamSupervisor rows)

\* main has loaded the configuration, set the secret once, initialised the
\* database and is serving
Started(secret) == [pc |-> "serving", env |-> secret, cfg |-> secret, writes |-> 1]

tokenVars == <<tok, tokIssue, vres>>
storeVars == <<users, invites, entries, team_supervisors>>

----------------------------------------------------------------------------
(* middleware/auth.go: the token service *)

Secrets == {"s1", "s2"}

\* jwt.NewNumericDate: t.Truncate(jwt.TimePrecision), TimePrecision = time.Second
NewNumericDate(t) == t - (t % TicksPerSecond)

\* SigningMethodHS256 as an ideal MAC: the tag names the key and the signed claims
HS256(key, claims) == <<key, claims>>

\* mutant: the role claim is not taken from the identity
MakeClaims_DefaultRole(user, exp, iat) ==
    [UserID |-> user.ID, Username |-> user.Username, Role |-> RoleEmployee,
     ExpiresAt |-> exp, IssuedAt |-> iat]

\* Claims{UserID, Username, Role, RegisteredClaims{ExpiresAt, IssuedAt}}
MakeClaims(user, exp, iat) ==
    [UserID |-> user.ID, Username |-> user.Username, Role |-> user.Role,
     ExpiresAt |-> exp, IssuedAt |-> iat]

\* token.SignedString(key)
SignedString(claims, key) ==
    [wellFormed |-> TRUE, claims |-> claims, sig |-> HS256(key, claims)]

\* GenerateToken(user, expiration); t0 and t1 are its two reads of time.Now()
GenerateToken(user, expiration, t0, t1) ==
    SignedString(MakeClaims(user, NewNumericDate(t0 + expiration), NewNumericDate(t1)),
                 jwtSecret)

\* mutant: the token is still accepted at its expiry instant
VerifyExpiresAt_Inclusive(claims, t) == t <= claims.ExpiresAt

\* jwt.Validator.verifyExpiresAt: now.Before(exp), no leeway
VerifyExpiresAt(claims, t) == t < claims.ExpiresAt

\* a string that is no three-part JWT: jwt.Parser.ParseUnverified rejects it
ZeroClaims == [UserID |-> 0, Username |-> "", Role |-> "", ExpiresAt |-> 0, IssuedAt |-> 0]
Malformed == [wellFormed |-> FALSE, claims |-> ZeroClaims, sig |-> HS256("", ZeroClaims)]

\* mutant: the signature is not verified
ValidateToken_NoSignature(tokenString, t) ==
    IF ~tokenString.wellFormed
    THEN [claims |-> None, err |-> "ErrTokenMalformed"]
    ELSE IF ~(t < tokenString.claims.ExpiresAt)
    THEN [claims |-> None, err |-> "ErrTokenExpired"]
    ELSE [claims |-> Some(tokenString.claims), err |-> "nil"]

\* ValidateToken(tokenString), called when the clock reads t
ValidateToken(tokenString, t) ==
    IF ~tokenString.wellFormed
    THEN [claims |-> None, err |-> "ErrTokenMalformed"]
    ELSE IF tokenString.sig # HS256(jwtSecret, tokenString.claims)
    THEN [claims |-> None, err |-> "ErrTokenSignatureInvalid"]
    ELSE IF ~VerifyExpiresAt(tokenString.claims, t)
    THEN [claims |-> None, err |-> "ErrTokenExpired"]
    ELSE [claims |-> Some(tokenString.claims), err |-> "nil"]

----------------------------------------------------------------------------
(* The token service on its own: tokens are issued, forged under any secret, *)
(* tampered with, and validated while the clock runs.                        *)

TokenUsers ==
    { [ID |-> 1, Username |-> "admin", Role |-> RoleAdmin],
      [ID |-> 2, Username |-> "alice", Role |-> RoleHR],
      [ID |-> 3, Username |-> "bob", Role |-> RoleEmployee] }

Durations == 1..MaxDuration

InitToken ==
    /\ now \in 0..(TicksPerSecond - 1)
    /\ jwtSecret \in Secrets
    /\ tok = None
    /\ tokIssue = None
    /\ vres = None
    /\ users = {}
    /\ invites = {}
    /\ reqs = <<>>
    /\ greq = None
    /\ pcall = None
    /\ boot = Started(jwtSecret)
    /\ entries = {}
    /\ team_supervisors = {}

Tick ==
    /\ now < MaxTime
    /\ now' = now + 1

\* a caller (Login, Register, ChangePassword) issues a token; the clock may
\* tick between the two time.Now() reads
IssueToken ==
    \E user \in TokenUsers, d \in Durations, t1 \in {now, now + 1} :
        /\ t1 <= MaxTime
        /\ now' = t1
        /\ tok' = Some(GenerateToken(user, d, now, t1))
        /\ tokIssue' = Some([user |-> user, expiration |-> d, t0 |-> now, t1 |-> t1])
        /\ vres' = None
        /\ UNCHANGED jwtSecret

\* somebody signs claims of their choice under a secret of their choice
ForgeToken ==
    \E user \in TokenUsers, s \in Secrets, exp \in {0, MaxTime + TicksPerSecond} :
        /\ tok' = Some(SignedString(MakeClaims(user, exp, 0), s))
        /\ tokIssue' = None
        /\ vres' = None
    /\ UNCHANGED <<now, jwtSecret, entries, team_supervisors>>

\* the holder rewrites the role claim and keeps the signature
TamperToken ==
    /\ tok # None
    /\ The(tok).wellFormed
    /\ \E r \in Roles :
        /\ r # The(tok).claims.Role
        /\ tok' = Some([The(tok) EXCEPT !.claims.Role = r])
    /\ tokIssue' = None
    /\ vres' = None
    /\ UNCHANGED <<now, jwtSecret, entries, team_supervisors>>

GarbleToken ==
    /\ tok' = Some(Malformed)
    /\ tokIssue' = None
    /\ vres' = None
    /\ UNCHANGED <<now, jwtSecret, entries, team_supervisors>>

CallValidateToken ==
    /\ tok # None
    /\ vres' = Some([tokenString |-> The(tok), issue |-> tokIssue, at |-> now,
                     secret |-> jwtSecret, ret |-> ValidateToken(The(tok), now)])
    /\ UNCHANGED <<now, jwtSecret, tok, tokIssue, entries, team_supervisors>>

NextToken ==
    \/ Tick /\ UNCHANGED <<jwtSecret, tokenVars, storeVars, reqs, greq, pcall, boot>>
    \/ IssueToken /\ UNCHANGED <<storeVars, reqs, greq, pcall, boot>>
    \/ ForgeToken /\ UNCHANGED <<storeVars, reqs, greq, pcall, boot>>
    \/ TamperToken /\ UNCHANGED <<storeVars, reqs, greq, pcall, boot>>
    \/ GarbleToken /\ UNCHANGED <<storeVars, reqs, greq, pcall, boot>>
    \/ CallValidateToken /\ UNCHANGED <<storeVars, reqs, greq, pcall, boot>>

vars == <<now, jwtSecret, tokenVars, storeVars, reqs, greq, pcall, boot>>

SpecToken == InitToken /\ [][NextToken]_vars

----------------------------------------------------------------------------
(* Properties of the token service, under SpecToken *)

\* the ValidateToken calls made on a token GenerateToken produced
IssuedChecks == {v \in vres : v.issue # None}

\* C1: a token GenerateToken made for an identity, validated under the same
\* secret at a time strictly before its recorded expiry, is accepted, and the
\* claims returned carry the identity's id, username and role.
C1_RoundTrip ==
    \A v \in IssuedChecks :
        v.at < v.tokenString.claims.ExpiresAt =>
            /\ v.ret.err = "nil"
            /\ v.ret.claims # None
            /\ The(v.ret.claims).UserID = The(v.issue).user.ID
            /\ The(v.ret.claims).Username = The(v.issue).user.Username
            /\ The(v.ret.claims).Role = The(v.issue).user.Role

\* an HR identity's token, validated after the clock moved on and before expiry
C1_Witness ==
    \E v \in IssuedChecks :
        /\ The(v.issue).user.Role = RoleHR
        /\ The(v.issue).t0 < v.at
        /\ v.at < v.tokenString.claims.ExpiresAt
        /\ v.ret.err = "nil"

\* C2 as claimed: a token issued at t0 with duration d is accepted at every
\* check time strictly before t0 + d and rejected as expired from t0 + d on.
C2_AsClaimed ==
    \A v \in IssuedChecks :
        LET i == The(v.issue) IN
        /\ v.at < i.t0 + i.expiration => v.ret.err = "nil"
        /\ v.at >= i.t0 + i.expiration => v.ret.err = "ErrTokenExpired"

\* C2 as amended: the boundary is the recorded expiry, t0 + d truncated to the
\* whole second: the token is accepted at every check time strictly before it
\* and rejected as expired at every check time from it on (so at every time
\* >= t0 + d as well), with no leeway.
C2_ExpiryBoundary ==
    \A v \in IssuedChecks :
        LET i == The(v.issue)
            expiry == NewNumericDate(i.t0 + i.expiration) IN
        /\ expiry <= i.t0 + i.expiration
        /\ v.at < expiry => v.ret.err = "nil"
        /\ v.at >= expiry => v.ret.err = "ErrTokenExpired" /\ v.ret.claims = None

\* a token issued off the second boundary and checked at the very tick of its
\* recorded expiry, which is still before t0 + d: rejected
C2_Witness ==
    \E v \in IssuedChecks :
        LET i == The(v.issue) IN
        /\ v.at = NewNumericDate(i.t0 + i.expiration)
        /\ v.at < i.t0 + i.expiration
        /\ v.ret.err = "ErrTokenExpired"

\* C3: a well-formed token signed under a secret other than the process secret
\* is rejected with an error and no claims, whatever its claims say.
C3_WrongSecretRejected ==
    \A v \in vres :
        (v.tokenString.wellFormed /\ v.tokenString.sig[1] # v.secret) =>
            (v.ret.err # "nil" /\ v.ret.claims = None)

\* an unexpired Admin token signed under the other secret was validated
C3_Witness ==
    \E v \in vres :
        /\ v.tokenString.sig = HS256(CHOOSE s \in Secrets : s # v.secret, v.tokenString.claims)
        /\ v.tokenString.claims.Role = RoleAdmin
        /\ v.at < v.tokenString.claims.ExpiresAt
        /\ v.ret.err = "ErrTokenSignatureInvalid"

----------------------------------------------------------------------------
(* config.Load: the two durations, scaled to the model's clock *)

\* JWTExpiration: 24 * time.Hour, scaled to one second
JWTExpiration == 1 * TicksPerSecond
\* InviteExpiration: 7 * 24 * time.Hour, scaled to two seconds
InviteExpiration == 2 * TicksPerSecond

----------------------------------------------------------------------------
(* models/invite.go, database/database.go: the rows *)

\* mutant: a used invite is still valid while unexpired
IsValid_IgnoresUsed(i, t) == t < i.ExpiresAt

\* mutant: an unused invite never expires
IsValid_NoExpiry(i, t) == ~i.Used

\* mutant: the invite is still valid at its expiry instant
IsValid_Inclusive(i, t) == ~i.Used /\ t <= i.ExpiresAt

\* Invite.IsValid, called when the clock reads t
IsValid(i, t) == ~i.Used /\ t < i.ExpiresAt

\* bcrypt.GenerateFromPassword / CompareHashAndPassword
Bcrypt(password) == <<"bcrypt", password>>

\* seedDefaultAdmin's row
SeedAdmin ==
    [ID |-> 1, Username |-> "admin", PasswordHash |-> Bcrypt("admin"),
     Role |-> RoleAdmin, MustChangePassword |-> TRUE, fromInvite |-> "",
     FullName |-> "Administrator", TeamID |-> None, ProjectID |-> None]

\* the same row after the administrator's ChangePassword
ChangedAdmin ==
    [SeedAdmin EXCEPT !.PasswordHash = Bcrypt("admin1"), !.MustChangePassword = FALSE]

\* the auto-increment primary keys
NextUserID == Cardinality(users) + 1
NextInviteID == Cardinality(invites) + 1

\* GenerateInviteCode: the n-th invite gets the n-th code, never one seen before
Codes == <<"c1">>

\* Where("code = ?", code).First(&invite)
FindInvite(code) == {i \in invites : i.Code = code}

\* Where("username = ?", username).First(&existingUser)
FindUser(username) == {u \in users : u.Username = username}

----------------------------------------------------------------------------
(* handlers/auth.go: responses *)

\* a response: status, body, Location, the error of the query string, the token
\* cookie it sets (cookie) or deletes (clearCookie: empty value, MaxAge -1)
Response(status, body, loc, msg, cookie, clear) ==
    [status |-> status, body |-> body, location |-> loc, error |-> msg,
     cookie |-> cookie, clearCookie |-> clear]
HttpError(status, msg) == Response(status, msg, "", "", None, FALSE)
BadRequest(msg) == HttpError(400, msg)
Rendered(page) == Response(200, page, "", "", None, FALSE)
Redirect(loc) == Response(303, "", loc, "", None, FALSE)
RedirectError(loc, msg) == Response(303, "", loc, msg, None, FALSE)
RedirectWithCookie(loc, token) == Response(303, "", loc, "", Some(token), FALSE)
RedirectClearingCookie(loc) == Response(303, "", loc, "", None, TRUE)

InvalidInviteLink == BadRequest("Invalid invite link")
ExpiredOrUsed == BadRequest("Invite link has expired or already been used")

----------------------------------------------------------------------------
(* handlers/auth.go: CreateInvite, RegisterPage and Register.              *)
(* A request is a sequence of steps, one per database call or clock read;  *)
(* the steps of different requests interleave.                             *)

RequestCodes == {Codes[n] : n \in 1..Len(Codes)} \cup {""}
Usernames == {"al", "admin", "alice", "bob"}
Passwords == {"pass", "secret"}
RoleStrings == Roles \cup {"MANAGER"}

InitRegister ==
    /\ now = 0
    /\ jwtSecret = "s1"
    /\ tok = None
    /\ tokIssue = None
    /\ vres = None
    /\ users = {ChangedAdmin}
    /\ invites = {}
    /\ reqs = <<>>
    /\ greq = None
    /\ pcall = None
    /\ boot = Started(jwtSecret)
    /\ entries = {}
    /\ team_supervisors = {}

\* mutant: the window is left out of ExpiresAt
CreateInvite_NoWindow(user, roleStr) ==
    /\ user \in users
    /\ user.Role = RoleAdmin
    /\ IF roleStr \notin Roles \/ NextInviteID > Len(Codes)
       THEN UNCHANGED invites
       ELSE invites' = invites \cup
                {[ID |-> NextInviteID, Code |-> Codes[NextInviteID], Role |-> roleStr,
                  Used |-> FALSE, CreatedBy |-> user.ID, FullName |-> "New Hire",
                  TeamID |-> None, ProjectID |-> None,
                  ExpiresAt |-> now]}
    /\ UNCHANGED <<now, jwtSecret, tokenVars, users, reqs, greq, pcall, boot, entries, team_supervisors>>

\* CreateInvite, past the gates, by the resolved identity `user`
CreateInvite(user, roleStr) ==
    /\ user \in users
    /\ user.Role = RoleAdmin
    /\ IF roleStr \notin Roles \/ NextInviteID > Len(Codes)
       THEN UNCHANGED invites
       ELSE invites' = invites \cup
                {[ID |-> NextInviteID, Code |-> Codes[NextInviteID], Role |-> roleStr,
                  Used |-> FALSE, CreatedBy |-> user.ID, FullName |-> "New Hire",
                  TeamID |-> None, ProjectID |-> None,
                  ExpiresAt |-> now + InviteExpiration]}
    /\ UNCHANGED <<now, jwtSecret, tokenVars, users, reqs, greq, pcall, boot, entries, team_supervisors>>

\* the clock of the registration flow moves a second at a time
TickSecond ==
    /\ now + TicksPerSecond <= MaxTime
    /\ now' = now + TicksPerSecond

\* a request as its first database call returns: `found` is the invite row
\* fetched by the code, expiredAtLoad whether that row's window was over by
\* then, afterFailedSave whether a Register had by then failed to persist
\* used = true for this code; saveErr marks the request that so fails
NewRequest(kind, code, found) ==
    [kind |-> kind, code |-> code, invite |-> found,
     expiredAtLoad |-> (found # None /\ now >= The(found).ExpiresAt),
     afterFailedSave |-> (\E k \in 1..Len(reqs) : reqs[k].saveErr /\ reqs[k].code = code),
     saveErr |-> FALSE,
     pc |-> IF found = None THEN "done" ELSE "valid",
     resp |-> IF found = None THEN Some(InvalidInviteLink) ELSE None,
     username |-> "", password |-> "", uid |-> 0]

\* RegisterPage (kind "page") / Register (kind "submit"): a request arrives
\* and fetches the invite by its code
LoadInvite(kind, code) ==
    /\ Len(reqs) < MaxRequests
    /\ reqs' = Append(reqs, NewRequest(kind, code, FindInvite(code)))
    /\ UNCHANGED <<now, jwtSecret, tokenVars, storeVars, greq, pcall, boot>>

Finish(k, response) ==
    reqs' = [reqs EXCEPT ![k].pc = "done", ![k].resp = Some(response)]

Goto(k, pc) == reqs' = [reqs EXCEPT ![k].pc = pc]

\* mutant: the submission trusts the check the page made
CheckInvite_PageOnly(k) ==
    /\ reqs[k].pc = "valid"
    /\ IF reqs[k].kind = "submit"
       THEN Goto(k, "form")
       ELSE IF ~IsValid(The(reqs[k].invite), now)
       THEN Finish(k, ExpiredOrUsed)
       ELSE Finish(k, Rendered("register"))
    /\ UNCHANGED <<now, jwtSecret, tokenVars, storeVars, greq, pcall, boot>>

\* RegisterPage / Register: invite.IsValid() on the fetched copy
CheckInvite(k) ==
    /\ reqs[k].pc = "valid"
    /\ IF ~IsValid(The(reqs[k].invite), now)
       THEN Finish(k, ExpiredOrUsed)
       ELSE IF reqs[k].kind = "page"
       THEN Finish(k, Rendered("register"))
       ELSE Goto(k, "form")
    /\ UNCHANGED <<now, jwtSecret, tokenVars, storeVars, greq, pcall, boot>>

\* mutant: the invite is marked used as soon as it was found valid, before the
\* form is looked at
CheckForm_ConsumesFirst(k, username, password, confirmPassword) ==
    /\ reqs[k].pc = "form"
    /\ IF Len(username) < 3
       THEN Finish(k, RedirectError("/register", "Username must be at least 3 characters"))
       ELSE IF password # confirmPassword
       THEN Finish(k, RedirectError("/register", "Passwords do not match"))
       ELSE IF Len(password) < 5
       THEN Finish(k, RedirectError("/register", "Password must be at least 5 characters"))
       ELSE IF FindUser(username) # {}
       THEN Finish(k, RedirectError("/register", "Username already exists"))
       ELSE reqs' = [reqs EXCEPT ![k].pc = "create", ![k].username = username,
                                 ![k].password = password]
    /\ invites' = {IF i.ID = The(reqs[k].invite).ID
                   THEN [The(reqs[k].invite) EXCEPT !.Used = TRUE] ELSE i : i \in invites}
    /\ UNCHANGED <<now, jwtSecret, tokenVars, users, entries, team_supervisors, greq, pcall, boot>>

\* Register: the form checks, then the look-up of the username
CheckForm(k, username, password, confirmPassword) ==
    /\ reqs[k].pc = "form"
    /\ IF Len(username) < 3
       THEN Finish(k, RedirectError("/register", "Username must be at least 3 characters"))
       ELSE IF password # confirmPassword
       THEN Finish(k, RedirectError("/register", "Passwords do not match"))
       ELSE IF Len(password) < 5
       THEN Finish(k, RedirectError("/register", "Password must be at least 5 characters"))
       ELSE IF FindUser(username) # {}
       THEN Finish(k, RedirectError("/register", "Username already exists"))
       ELSE reqs' = [reqs EXCEPT ![k].pc = "create", ![k].username = username,
                                 ![k].password = password]
    /\ UNCHANGED <<now, jwtSecret, tokenVars, storeVars, greq, pcall, boot>>

\* mutant: a failed Create still marks the invite used
CreateUser_ConsumesOnError(k, dbErr) ==
    /\ reqs[k].pc = "create"
    /\ IF dbErr \/ FindUser(reqs[k].username) # {}
       THEN /\ Finish(k, RedirectError("/register", "Failed to create account"))
            /\ UNCHANGED users
            /\ invites' = {IF i.ID = The(reqs[k].invite).ID
                           THEN [The(reqs[k].invite) EXCEPT !.Used = TRUE] ELSE i
                           : i \in invites}
       ELSE /\ users' = users \cup
                {[ID |-> NextUserID, Username |-> reqs[k].username,
                  PasswordHash |-> Bcrypt(reqs[k].password),
                  Role |-> The(reqs[k].invite).Role, MustChangePassword |-> TRUE,
                  fromInvite |-> The(reqs[k].invite).Code,
                  FullName |-> The(reqs[k].invite).FullName,
                  TeamID |-> The(reqs[k].invite).TeamID,
                  ProjectID |-> The(reqs[k].invite).ProjectID]}
            /\ reqs' = [reqs EXCEPT ![k].pc = "flag", ![k].uid = NextUserID]
            /\ UNCHANGED invites
    /\ UNCHANGED <<now, jwtSecret, tokenVars, greq, pcall, boot, entries, team_supervisors>>

\* mutant: the role of the new identity is read from the submitted form
CreateUser_RoleFromForm(k, dbErr) ==
    /\ reqs[k].pc = "create"
    /\ IF dbErr \/ FindUser(reqs[k].username) # {}
       THEN /\ Finish(k, RedirectError("/register", "Failed to create account"))
            /\ UNCHANGED users
       ELSE /\ \E roleStr \in Roles :
                users' = users \cup
                    {[ID |-> NextUserID, Username |-> reqs[k].username,
                      PasswordHash |-> Bcrypt(reqs[k].password),
                      Role |-> roleStr, MustChangePassword |-> TRUE,
                      fromInvite |-> The(reqs[k].invite).Code,
                      FullName |-> The(reqs[k].invite).FullName,
                      TeamID |-> The(reqs[k].invite).TeamID,
                      ProjectID |-> The(reqs[k].invite).ProjectID]}
            /\ reqs' = [reqs EXCEPT ![k].pc = "flag", ![k].uid = NextUserID]
    /\ UNCHANGED <<now, jwtSecret, tokenVars, invites, greq, pcall, boot, entries, team_supervisors>>

\* mutant: the username column carries no unique index
CreateUser_NoUniqueIndex(k, dbErr) ==
    /\ reqs[k].pc = "create"
    /\ IF dbErr
       THEN /\ Finish(k, RedirectError("/register", "Failed to create account"))
            /\ UNCHANGED users
       ELSE /\ users' = users \cup
                {[ID |-> NextUserID, Username |-> reqs[k].username,
                  PasswordHash |-> Bcrypt(reqs[k].password),
                  Role |-> The(reqs[k].invite).Role, MustChangePassword |-> TRUE,
                  fromInvite |-> The(reqs[k].invite).Code,
                  FullName |-> The(reqs[k].invite).FullName,
                  TeamID |-> The(reqs[k].invite).TeamID,
                  ProjectID |-> The(reqs[k].invite).ProjectID]}
            /\ reqs' = [reqs EXCEPT ![k].pc = "flag", ![k].uid = NextUserID]
    /\ UNCHANGED <<now, jwtSecret, tokenVars, invites, greq, pcall, boot, entries, team_supervisors>>

\* Register: Create(&user); the database may return an error (dbErr), the
\* unique index on username may refuse the row, and the column default makes
\* must_change_password true for the zero value
CreateUser(k, dbErr) ==
    /\ reqs[k].pc = "create"
    /\ IF dbErr \/ FindUser(reqs[k].username) # {}
       THEN /\ Finish(k, RedirectError("/register", "Failed to create account"))
            /\ UNCHANGED users
       ELSE /\ users' = users \cup
                {[ID |-> NextUserID, Username |-> reqs[k].username,
                  PasswordHash |-> Bcrypt(reqs[k].password),
                  Role |-> The(reqs[k].invite).Role, MustChangePassword |-> TRUE,
                  fromInvite |-> The(reqs[k].invite).Code,
                  FullName |-> The(reqs[k].invite).FullName,
                  TeamID |-> The(reqs[k].invite).TeamID,
                  ProjectID |-> The(reqs[k].invite).ProjectID]}
            /\ reqs' = [reqs EXCEPT ![k].pc = "flag", ![k].uid = NextUserID]
    /\ UNCHANGED <<now, jwtSecret, tokenVars, invites, greq, pcall, boot, entries, team_supervisors>>

\* Register: Model(&user).Update("must_change_password", false)
ClearMustChange(k) ==
    /\ reqs[k].pc = "flag"
    /\ users' = {IF u.ID = reqs[k].uid THEN [u EXCEPT !.MustChangePassword = FALSE] ELSE u
                 : u \in users}
    /\ Goto(k, "consume")
    /\ UNCHANGED <<now, jwtSecret, tokenVars, invites, greq, pcall, boot, entries, team_supervisors>>

\* mutant: a failed Save ends the request with an error
ConsumeInvite_ChecksError(k, dbErr) ==
    /\ reqs[k].pc = "consume"
    /\ IF dbErr
       THEN /\ UNCHANGED invites
            /\ reqs' = [reqs EXCEPT ![k].pc = "done", ![k].saveErr = TRUE,
                          ![k].resp = Some(RedirectError("/register", "Failed to create account"))]
       ELSE /\ invites' = {IF i.ID = The(reqs[k].invite).ID
                           THEN [The(reqs[k].invite) EXCEPT !.Used = TRUE] ELSE i
                           : i \in invites}
            /\ Goto(k, "token")
    /\ UNCHANGED <<now, jwtSecret, tokenVars, users, greq, pcall, boot, entries, team_supervisors>>

\* Register: invite.Used = true; Save(&invite) writes the whole fetched copy
\* back; the error Save returns (dbErr) is dropped and the handler goes on
ConsumeInvite(k, dbErr) ==
    /\ reqs[k].pc = "consume"
    /\ IF dbErr
       THEN /\ UNCHANGED invites
            /\ reqs' = [reqs EXCEPT ![k].pc = "token", ![k].saveErr = TRUE]
       ELSE /\ invites' = {IF i.ID = The(reqs[k].invite).ID
                           THEN [The(reqs[k].invite) EXCEPT !.Used = TRUE] ELSE i
                           : i \in invites}
            /\ Goto(k, "token")
    /\ UNCHANGED <<now, jwtSecret, tokenVars, users, greq, pcall, boot, entries, team_supervisors>>

\* Register: GenerateToken, the token cookie, the redirect to /dashboard
\* (both clock reads of GenerateToken fall in the tick of this step; SpecToken
\* has the reads that differ)
LogIn(k) ==
    /\ reqs[k].pc = "token"
    /\ Finish(k, RedirectWithCookie("/dashboard",
            GenerateToken([ID |-> reqs[k].uid, Username |-> reqs[k].username,
                           Role |-> The(reqs[k].invite).Role],
                          JWTExpiration, now, now)))
    /\ UNCHANGED <<now, jwtSecret, tokenVars, storeVars, greq, pcall, boot>>

NextRegister ==
    \/ TickSecond /\ UNCHANGED <<jwtSecret, tokenVars, storeVars, reqs, greq, pcall, boot>>
    \/ \E user \in users, roleStr \in RoleStrings : CreateInvite(user, roleStr)
    \/ \E kind \in {"page", "submit"}, code \in RequestCodes : LoadInvite(kind, code)
    \/ \E k \in 1..Len(reqs) : CheckInvite(k)
    \/ \E k \in 1..Len(reqs), username \in Usernames,
          password \in Passwords, confirmPassword \in Passwords :
            CheckForm(k, username, password, confirmPassword)
    \/ \E k \in 1..Len(reqs), dbErr \in BOOLEAN : CreateUser(k, dbErr)
    \/ \E k \in 1..Len(reqs) : ClearMustChange(k)
    \/ \E k \in 1..Len(reqs), dbErr \in BOOLEAN : ConsumeInvite(k, dbErr)
    \/ \E k \in 1..Len(reqs) : LogIn(k)

SpecRegister == InitRegister /\ [][NextRegister]_vars

----------------------------------------------------------------------------
(* Properties of the invite redemption flow, under SpecRegister *)

\* the identities created from the invite with this code
CreatedFrom(code) == {u \in users : u.fromInvite = code}

\* the request got past the write of used = true, and the write landed
Consumed(r) ==
    /\ r.pc = "token" \/ (r.pc = "done" /\ r.resp # None /\ The(r.resp).cookie # None)
    /\ ~r.saveErr

\* the request was turned away as expired-or-used and created nothing
TurnedAway(r) ==
    r.pc = "done" /\ r.resp = Some(ExpiredOrUsed) /\ r.uid = 0 /\ The(r.resp).cookie = None

\* C4: whatever the interleaving of Register requests with the same invite code
\* and distinct usernames, at most one identity is created from an invite
\* (every write of used = true having landed).
C4_AtMostOneIdentityPerInvite ==
    (\A k \in 1..Len(reqs) : ~reqs[k].saveErr) =>
        \A n \in 1..Len(Codes) : Cardinality(CreatedFrom(Codes[n])) <= 1

\* C5: once a Register has persisted used = true for a code, the flag stays true,
\* and every request that fetches the invite from then on is turned away with
\* the expired-or-used rejection and creates no identity, before expires_at too.
C5_UsedInviteStaysInvalid ==
    /\ \A k \in 1..Len(reqs) :
        Consumed(reqs[k]) => \A i \in FindInvite(reqs[k].code) : i.Used
    /\ \A k \in 1..Len(reqs) :
        (reqs[k].invite # None /\ The(reqs[k].invite).Used) =>
            (reqs[k].pc = "valid" \/ TurnedAway(reqs[k]))

\* a Register succeeded, and a later Register with the same code was turned
\* away while the invite's window was still open
C5_Witness ==
    \E k, l \in 1..Len(reqs) :
        /\ k < l
        /\ Consumed(reqs[k]) /\ reqs[k].pc = "done"
        /\ reqs[l].kind = "submit" /\ reqs[l].code = reqs[k].code
        /\ The(reqs[l].invite).Used
        /\ now < The(reqs[l].invite).ExpiresAt
        /\ TurnedAway(reqs[l])

\* C6: each IsValid call answers true iff the fetched record has Used = false
\* and the clock is strictly before its ExpiresAt (false at now = ExpiresAt).
C6_IsValidIff ==
    [][\A k \in 1..Len(reqs) :
        (reqs[k].pc = "valid" /\ reqs'[k].pc # "valid") =>
            ((reqs'[k].resp # Some(ExpiredOrUsed)) <=>
                (The(reqs[k].invite).Used = FALSE /\ now < The(reqs[k].invite).ExpiresAt))]_vars

\* IsValid answered false for an unused invite at the very instant of ExpiresAt
C6_Witness ==
    \E k \in 1..Len(reqs) :
        /\ reqs[k].invite # None
        /\ ~The(reqs[k].invite).Used
        /\ now = The(reqs[k].invite).ExpiresAt
        /\ reqs[k].resp = Some(ExpiredOrUsed)

\* C7: a RegisterPage or Register request whose invite is still unused but past
\* its expires_at is turned away, creates no identity and gets no token.
C7_ExpiredInviteRejected ==
    \A k \in 1..Len(reqs) :
        (reqs[k].invite # None /\ ~The(reqs[k].invite).Used /\ reqs[k].expiredAtLoad) =>
            (reqs[k].pc = "valid" \/ TurnedAway(reqs[k]))

\* a Register with an expired invite that nobody has used was turned away
C7_Witness ==
    \E k \in 1..Len(reqs) :
        /\ reqs[k].kind = "submit"
        /\ reqs[k].expiredAtLoad
        /\ \A i \in FindInvite(reqs[k].code) : ~i.Used
        /\ CreatedFrom(reqs[k].code) = {}
        /\ TurnedAway(reqs[k])

\* the request ended logged in: an identity of its own and a token cookie
Registered(r) ==
    /\ r.pc = "done" /\ r.resp # None /\ The(r.resp).cookie # None
    /\ \E u \in users : u.ID = r.uid /\ u.fromInvite = r.code

FailedToCreate == RedirectError("/register", "Failed to create account")

\* the rejections of the form itself
FormErrors ==
    {RedirectError("/register", "Username must be at least 3 characters"),
     RedirectError("/register", "Passwords do not match"),
     RedirectError("/register", "Password must be at least 5 characters"),
     RedirectError("/register", "Username already exists")}

\* C16: if Create returns an error during Register, the request ends there:
\* the invite row is left as it was (used stays false), no identity is added,
\* no token is issued, and the code can be redeemed afterwards.
C16_FailedCreateLeavesInvite ==
    [][\A k \in 1..Len(reqs) :
        (reqs[k].pc = "create" /\ reqs'[k].pc = "done") =>
            /\ invites' = invites
            /\ users' = users
            /\ reqs'[k].resp = Some(FailedToCreate)
            /\ The(reqs'[k].resp).cookie = None
            /\ reqs'[k].uid = 0]_vars

\* a Register failed at Create, and a later one redeemed the same code
C16_Witness ==
    \E k, l \in 1..Len(reqs) :
        /\ k < l
        /\ reqs[k].pc = "done" /\ reqs[k].resp = Some(FailedToCreate)
        /\ reqs[l].code = reqs[k].code
        /\ ~The(reqs[l].invite).Used
        /\ Registered(reqs[l])
        /\ Cardinality(CreatedFrom(reqs[k].code)) = 1

\* C17, as claimed: if persisting used = true fails after Create, the
\* registration still completes (identity kept, token issued), and every
\* later Register with that code and a fresh username creates a further
\* identity.
C17_AsClaimed ==
    /\ \A k \in 1..Len(reqs) :
        (reqs[k].saveErr /\ reqs[k].pc = "done") => Registered(reqs[k])
    /\ \A l \in 1..Len(reqs) :
        (/\ reqs[l].kind = "submit" /\ reqs[l].afterFailedSave /\ reqs[l].pc = "done"
         /\ reqs[l].resp \notin {Some(e) : e \in FormErrors \cup {FailedToCreate}})
        => Registered(reqs[l])

\* C17, amended: if persisting used = true fails after Create, the
\* registration still completes (identity kept, token issued) and the invite
\* stays redeemable until it expires or a later Register persists used =
\* true: a later Register with that code is turned away only with the
\* expired-or-used rejection, and only when the row it fetched was used or
\* its window is over; otherwise, its form and its Create passing, it creates
\* a further identity.
C17_ReusableWhileUnexpired ==
    /\ \A k \in 1..Len(reqs) :
        (reqs[k].saveErr /\ reqs[k].pc = "done") => Registered(reqs[k])
    /\ \A l \in 1..Len(reqs) :
        (/\ reqs[l].kind = "submit" /\ reqs[l].afterFailedSave /\ reqs[l].pc = "done"
         /\ reqs[l].resp \notin {Some(e) : e \in FormErrors \cup {FailedToCreate}})
        => \/ Registered(reqs[l])
           \/ /\ TurnedAway(reqs[l])
              /\ The(reqs[l].invite).Used \/ now >= The(reqs[l].invite).ExpiresAt

\* a Register whose Save failed, and a later one that redeemed the code again
C17_Witness ==
    \E k, l \in 1..Len(reqs) :
        /\ k < l
        /\ reqs[k].saveErr /\ Registered(reqs[k])
        /\ reqs[l].kind = "submit" /\ reqs[l].afterFailedSave
        /\ reqs[l].code = reqs[k].code
        /\ Registered(reqs[l])
        /\ Cardinality(CreatedFrom(reqs[k].code)) = 2

\* C18: validity is evaluated afresh at both steps: when RegisterPage has
\* rendered the form for an invite and the Register submission then fetches
\* it used or past its expires_at, the submission is turned away and creates
\* no identity.
C18_SubmitRevalidates ==
    \A k, l \in 1..Len(reqs) :
        (/\ k < l
         /\ reqs[k].kind = "page" /\ reqs[k].resp = Some(Rendered("register"))
         /\ reqs[l].kind = "submit" /\ reqs[l].code = reqs[k].code
         /\ reqs[l].invite # None
         /\ The(reqs[l].invite).Used \/ reqs[l].expiredAtLoad)
        => (reqs[l].pc = "valid" \/ TurnedAway(reqs[l]))

\* the page showed the form, the invite ran out, the submission was turned away
C18_Witness ==
    \E k, l \in 1..Len(reqs) :
        /\ k < l
        /\ reqs[k].kind = "page" /\ reqs[k].resp = Some(Rendered("register"))
        /\ reqs[l].kind = "submit" /\ reqs[l].code = reqs[k].code
        /\ reqs[l].expiredAtLoad
        /\ TurnedAway(reqs[l])
        /\ CreatedFrom(reqs[l].code) = {}

----------------------------------------------------------------------------
(* middleware/auth.go: the three gates *)

\* the token cookie of a request: absent, or present with a value (None: empty)
NoCookie == [present |-> FALSE, value |-> None]
TokenCookie(value) == [present |-> TRUE, value |-> value]

\* the Authorization header, as strings.Split(authHeader, " ") leaves it;
\* <<>> is the absent header
NoHeader == <<>>

\* AuthMiddleware, lines 64-80: the cookie first, the Bearer header if that
\* gave nothing; None is the empty tokenString
ExtractToken(req) ==
    LET fromCookie == IF req.cookie.present THEN req.cookie.value ELSE None IN
    IF fromCookie # None
    THEN fromCookie
    ELSE IF Len(req.authorization) = 2 /\ req.authorization[1] = "Bearer"
    THEN Some(req.authorization[2])
    ELSE None

\* what a gate hands back: a terminal response, or None to call next, and the
\* identity in the request context
Terminal(response, user) == [resp |-> Some(response), user |-> user]
CallNext(user) == [resp |-> None, user |-> user]

\* database.GetDB().First(&user, id)
FirstUser(id) == {u \in users : u.ID = id}

\* mutant: the context identity takes its role from the token claims
AuthMiddleware_ClaimsRole(req) ==
    LET tokenString == ExtractToken(req) IN
    IF tokenString = None
    THEN Terminal(Redirect("/login"), None)
    ELSE LET v == ValidateToken(The(tokenString), now) IN
         IF v.err # "nil"
         THEN Terminal(RedirectClearingCookie("/login"), None)
         ELSE LET user == FirstUser(The(v.claims).UserID) IN
              IF user = None
              THEN Terminal(Redirect("/login"), None)
              ELSE CallNext({[u EXCEPT !.Role = The(v.claims).Role] : u \in user})

\* mutant: a failed validation redirects and leaves the cookie alone
AuthMiddleware_KeepsCookie(req) ==
    LET tokenString == ExtractToken(req) IN
    IF tokenString = None
    THEN Terminal(Redirect("/login"), None)
    ELSE LET v == ValidateToken(The(tokenString), now) IN
         IF v.err # "nil"
         THEN Terminal(Redirect("/login"), None)
         ELSE LET user == FirstUser(The(v.claims).UserID) IN
              IF user = None
              THEN Terminal(Redirect("/login"), None)
              ELSE CallNext(user)

\* mutant: a token whose row is gone is served from its claims
AuthMiddleware_TrustsClaims(req) ==
    LET tokenString == ExtractToken(req) IN
    IF tokenString = None
    THEN Terminal(Redirect("/login"), None)
    ELSE LET v == ValidateToken(The(tokenString), now) IN
         IF v.err # "nil"
         THEN Terminal(RedirectClearingCookie("/login"), None)
         ELSE LET user == FirstUser(The(v.claims).UserID) IN
              IF user = None
              THEN CallNext({[ID |-> The(v.claims).UserID,
                              Username |-> The(v.claims).Username,
                              PasswordHash |-> Bcrypt(""),
                              Role |-> The(v.claims).Role,
                              MustChangePassword |-> FALSE, fromInvite |-> "",
                              FullName |-> "", TeamID |-> None, ProjectID |-> None]})
              ELSE CallNext(user)

\* mutant: a token whose role claim no longer matches the row is refused
AuthMiddleware_RevokesOnRoleChange(req) ==
    LET tokenString == ExtractToken(req) IN
    IF tokenString = None
    THEN Terminal(Redirect("/login"), None)
    ELSE LET v == ValidateToken(The(tokenString), now) IN
         IF v.err # "nil"
         THEN Terminal(RedirectClearingCookie("/login"), None)
         ELSE LET user == FirstUser(The(v.claims).UserID) IN
              IF user = None \/ \E u \in user : u.Role # The(v.claims).Role
              THEN Terminal(Redirect("/login"), None)
              ELSE CallNext(user)

\* mutant: an expired token is redirected with its cookie left in place
AuthMiddleware_ExpiredKeepsCookie(req) ==
    LET tokenString == ExtractToken(req) IN
    IF tokenString = None
    THEN Terminal(Redirect("/login"), None)
    ELSE LET v == ValidateToken(The(tokenString), now) IN
         IF v.err = "ErrTokenExpired"
         THEN Terminal(Redirect("/login"), None)
         ELSE IF v.err # "nil"
         THEN Terminal(RedirectClearingCookie("/login"), None)
         ELSE LET user == FirstUser(The(v.claims).UserID) IN
              IF user = None
              THEN Terminal(Redirect("/login"), None)
              ELSE CallNext(user)

\* AuthMiddleware
AuthMiddleware(req) ==
    LET tokenString == ExtractToken(req) IN
    IF tokenString = None
    THEN Terminal(Redirect("/login"), None)
    ELSE LET v == ValidateToken(The(tokenString), now) IN
         IF v.err # "nil"
         THEN Terminal(RedirectClearingCookie("/login"), None)
         ELSE LET user == FirstUser(The(v.claims).UserID) IN
              IF user = None
              THEN Terminal(Redirect("/login"), None)
              ELSE CallNext(user)

\* mutant: the flag is not looked at
RequirePasswordChange_NoCheck(req, user) == CallNext(user)

\* RequirePasswordChange
RequirePasswordChange(req, user) ==
    IF user # None /\ The(user).MustChangePassword
    THEN IF req.path = "/change-password"
         THEN CallNext(user)
         ELSE Terminal(Redirect("/change-password"), user)
    ELSE CallNext(user)

\* mutant: a role outside the list is sent to the login page
RequireRole_RedirectsToLogin(roles, user) ==
    IF user = None
    THEN Terminal(HttpError(401, "Unauthorized"), user)
    ELSE IF The(user).Role \in roles
    THEN CallNext(user)
    ELSE Terminal(Redirect("/login"), user)

\* RequireRole(roles...)
RequireRole(roles, user) ==
    IF user = None
    THEN Terminal(HttpError(401, "Unauthorized"), user)
    ELSE IF The(user).Role \in roles
    THEN CallNext(user)
    ELSE Terminal(HttpError(403, "Forbidden"), user)

----------------------------------------------------------------------------
(* main.go: the router *)

UseAuth == [gate |-> "AuthMiddleware", roles |-> {}]
UsePasswordChange == [gate |-> "RequirePasswordChange", roles |-> {}]
UseRole(roles) == [gate |-> "RequireRole", roles |-> roles]

\* the nested router.Group calls: each group adds its r.Use to the outer chain
PublicChain == <<>>
ProtectedChain == PublicChain \o <<UseAuth>>
\* mutant: the inner group forgets its r.Use(RequirePasswordChange)
PasswordChain_Ungated == ProtectedChain

PasswordChain == ProtectedChain \o <<UsePasswordChange>>
AdminHRChain == PasswordChain \o <<UseRole({RoleAdmin, RoleHR})>>

\* mutant: the Admin-only group installs its role gate ahead of the password gate
AdminChain_RoleFirst == ProtectedChain \o <<UseRole({RoleAdmin}), UsePasswordChange>>

AdminChain == PasswordChain \o <<UseRole({RoleAdmin})>>

Route(method, path, chain, handler) ==
    [method |-> method, path |-> path, chain |-> chain, handler |-> handler]

Routes ==
    { Route("GET", "/", PublicChain, "RedirectToLogin"),
      Route("GET", "/login", PublicChain, "LoginPage"),
      Route("POST", "/login", PublicChain, "Login"),
      Route("GET", "/register", PublicChain, "RegisterPage"),
      Route("POST", "/register", PublicChain, "Register"),
      Route("GET", "/logout", ProtectedChain, "Logout"),
      Route("GET", "/change-password", ProtectedChain, "ChangePasswordPage"),
      Route("POST", "/change-password", ProtectedChain, "ChangePassword"),
      Route("GET", "/dashboard", PasswordChain, "Dashboard"),
      Route("GET", "/overtime/new", PasswordChain, "NewEntryPage"),
      Route("POST", "/overtime/new", PasswordChain, "CreateEntry"),
      Route("GET", "/overtime/edit", PasswordChain, "EditEntryPage"),
      Route("POST", "/overtime/edit", PasswordChain, "UpdateEntry"),
      Route("POST", "/overtime/delete", PasswordChain, "DeleteEntry"),
      Route("GET", "/overtime/all", AdminHRChain, "AllEntriesPage"),
      Route("GET", "/export", AdminHRChain, "ExportPage"),
      Route("GET", "/export/csv", AdminHRChain, "ExportCSV"),
      Route("GET", "/invites", AdminChain, "InvitesPage"),
      Route("POST", "/invites", AdminChain, "CreateInvite"),
      Route("GET", "/users", AdminChain, "UsersPage"),
      Route("GET", "/users/edit", AdminChain, "EditUserPage"),
      Route("POST", "/users/edit", AdminChain, "UpdateUser"),
      Route("POST", "/users/delete", AdminChain, "DeleteUser"),
      Route("GET", "/teams", AdminChain, "TeamsPage"),
      Route("POST", "/teams", AdminChain, "CreateTeam"),
      Route("POST", "/teams/delete", AdminChain, "DeleteTeam"),
      Route("GET", "/projects", AdminChain, "ProjectsPage"),
      Route("POST", "/projects", AdminChain, "CreateProject"),
      Route("POST", "/projects/delete", AdminChain, "DeleteProject") }

\* one middleware of a chain, run on the request with the context so far
RunGate(g, req, user) ==
    IF g.gate = "AuthMiddleware" THEN AuthMiddleware(req)
    ELSE IF g.gate = "RequirePasswordChange" THEN RequirePasswordChange(req, user)
    ELSE RequireRole(g.roles, user)

\* chi runs the chain from its i-th middleware on: each one either answers or
\* calls next, and the route's handler is next of the last
RECURSIVE RunChain(_, _, _, _, _)
RunChain(route, i, req, user, trace) ==
    IF i > Len(route.chain)
    THEN [resp |-> None, handler |-> route.handler, user |-> user, trace |-> trace]
    ELSE LET out == RunGate(route.chain[i], req, user) IN
         IF out.resp # None
         THEN [resp |-> out.resp, handler |-> "", user |-> out.user,
               trace |-> Append(trace, route.chain[i].gate)]
         ELSE RunChain(route, i + 1, req, out.user, Append(trace, route.chain[i].gate))

----------------------------------------------------------------------------
(* Requests on the routed paths, by clients that log in, let their token     *)
(* age, or present a token signed elsewhere or no token at all.              *)

Alice(role, flag) ==
    [ID |-> 2, Username |-> "alice", PasswordHash |-> Bcrypt("secret"),
     Role |-> role, MustChangePassword |-> flag, fromInvite |-> "c1",
     FullName |-> "Al Ice", TeamID |-> None, ProjectID |-> None]

LoginPasswords == {"admin", "admin1", "secret"}

\* the seeded administrator, and a second account of any role, flag set or not
InitGate ==
    /\ now = 0
    /\ jwtSecret = "s1"
    /\ tok = None
    /\ tokIssue = None
    /\ vres = None
    /\ \E role \in Roles, flag \in BOOLEAN : users = {SeedAdmin, Alice(role, flag)}
    /\ invites = {}
    /\ reqs = <<>>
    /\ greq = None
    /\ pcall = None
    /\ boot = Started(jwtSecret)
    /\ entries = {}
    /\ team_supervisors = {}

\* Login: on success the client holds the new token
Login(username, password) ==
    /\ greq = None
    /\ \E user \in FindUser(username) :
        /\ user.PasswordHash = Bcrypt(password)
        /\ tok' = Some(GenerateToken(user, JWTExpiration, now, now))
    /\ UNCHANGED <<now, jwtSecret, tokIssue, vres, storeVars, reqs, greq, pcall, boot>>

\* a client holds session claims signed under a secret of its own
ForgeSession ==
    /\ greq = None
    /\ \E user \in users, s \in Secrets \ {jwtSecret} :
        tok' = Some(SignedString(MakeClaims(user, NewNumericDate(now + JWTExpiration),
                                            NewNumericDate(now)), s))
    /\ UNCHANGED <<now, jwtSecret, tokIssue, vres, storeVars, reqs, greq, pcall, boot>>

\* a client holds a string that is no token
GarbleSession ==
    /\ greq = None
    /\ tok' = Some(Malformed)
    /\ UNCHANGED <<now, jwtSecret, tokIssue, vres, storeVars, reqs, greq, pcall, boot>>

Credential(cookie, authorization) == [cookie |-> cookie, authorization |-> authorization]

\* what a client can send with the token it holds: nothing, an empty cookie,
\* the token as cookie, as Bearer header (behind an empty cookie too), or
\* under a scheme that is not "Bearer"
Credentials ==
    {Credential(NoCookie, NoHeader), Credential(TokenCookie(None), NoHeader)}
    \cup {Credential(TokenCookie(tok), NoHeader) : t \in tok}
    \cup {Credential(NoCookie, <<"Bearer", t>>) : t \in tok}
    \cup {Credential(TokenCookie(None), <<"Bearer", t>>) : t \in tok}
    \cup {Credential(NoCookie, <<"bearer", t>>) : t \in tok}

\* the router serves a request: the route's chain runs, and greq holds the
\* terminal response of a gate or the handler the request was dispatched to
Serve(route, cred) ==
    LET req == [method |-> route.method, path |-> route.path,
                cookie |-> cred.cookie, authorization |-> cred.authorization]
        out == RunChain(route, 1, req, None, <<>>) IN
    /\ greq = None
    /\ greq' = Some([route |-> route, cred |-> cred,
                     sentToken |-> ExtractToken(req), at |-> now,
                     user |-> out.user, trace |-> out.trace,
                     resp |-> out.resp, handler |-> out.handler])
    /\ UNCHANGED <<now, jwtSecret, tokenVars, storeVars, reqs, pcall, boot>>

\* the response is written and the request is over
Done ==
    /\ greq # None
    /\ greq' = None
    /\ UNCHANGED <<now, jwtSecret, tokenVars, storeVars, reqs, pcall, boot>>

NextGate ==
    \/ TickSecond /\ UNCHANGED <<jwtSecret, tokenVars, storeVars, reqs, greq, pcall, boot>>
    \/ \E username \in Usernames, password \in LoginPasswords : Login(username, password)
    \/ ForgeSession
    \/ GarbleSession
    \/ \E route \in Routes, cred \in Credentials : Serve(route, cred)
    \/ Done

SpecGate == InitGate /\ [][NextGate]_vars

----------------------------------------------------------------------------
(* The access gate chain *)

GateOrder == <<"AuthMiddleware", "RequirePasswordChange", "RequireRole">>

GateNames(chain) == [i \in 1..Len(chain) |-> chain[i].gate]

IsPrefix(a, b) == Len(a) <= Len(b) /\ \A i \in 1..Len(a) : a[i] = b[i]

HasGate(route, gate) == \E i \in 1..Len(route.chain) : route.chain[i].gate = gate

\* the allow-list of the route's role gate
AllowList(route) ==
    UNION {route.chain[i].roles : i \in {n \in 1..Len(route.chain) : route.chain[n].gate = "RequireRole"}}

\* the identity the token sent with a served request stands for, when the
\* token was valid at the time of the request
Resolved(r) ==
    IF r.sentToken = None
    THEN None
    ELSE LET v == ValidateToken(The(r.sentToken), r.at) IN
         IF v.err = "nil" THEN FirstUser(The(v.claims).UserID) ELSE None

Dispatched(r) == r.resp = None /\ r.handler = r.route.handler

\* C8: on every protected route the gates run in the order authentication,
\* password compliance, role allow-list; each gate that runs either answers
\* with the one terminal response of the request or passes control on; the
\* handler is dispatched only when every gate of the route has passed; and an
\* identity with must_change_password = true whose role is outside an
\* Admin-only route's allow-list gets the redirect to /change-password, not
\* the 403.
C8_GateOrder ==
    greq # None =>
        LET r == The(greq)
            names == GateNames(r.route.chain) IN
        /\ IsPrefix(names, GateOrder)
        /\ IsPrefix(r.trace, names)
        /\ (r.resp = None) <=> (r.handler # "")
        /\ r.resp = None => r.trace = names /\ r.handler = r.route.handler
        /\ r.resp # None => r.trace # <<>>
        /\ \A u \in Resolved(r) :
            (/\ HasGate(r.route, "RequireRole")
             /\ AllowList(r.route) = {RoleAdmin}
             /\ u.MustChangePassword
             /\ u.Role # RoleAdmin)
            => /\ r.resp = Some(Redirect("/change-password"))
               /\ The(r.resp).status # 403
               /\ r.trace = <<"AuthMiddleware", "RequirePasswordChange">>

C8_Witness ==
    /\ greq # None
    /\ The(greq).route.path = "/users"
    /\ \E u \in Resolved(The(greq)) : u.MustChangePassword /\ u.Role = RoleEmployee
    /\ The(greq).resp = Some(Redirect("/change-password"))
    /\ The(greq).trace = <<"AuthMiddleware", "RequirePasswordChange">>

\* C9: for an authenticated identity with must_change_password = true, a
\* request to a route behind the password gate ends with a redirect to
\* /change-password and no handler is dispatched, while its request to
\* /change-password is dispatched to the change-password handler.
C9_MustChangeRedirected ==
    greq # None =>
        LET r == The(greq) IN
        \A u \in Resolved(r) :
            u.MustChangePassword =>
                /\ HasGate(r.route, "RequirePasswordChange") =>
                    r.resp = Some(Redirect("/change-password")) /\ r.handler = ""
                /\ r.route.path = "/change-password" =>
                    Dispatched(r) /\ r.handler \in {"ChangePasswordPage", "ChangePassword"}

C9_Witness ==
    /\ greq # None
    /\ The(greq).route.path = "/dashboard"
    /\ \E u \in Resolved(The(greq)) : u.MustChangePassword
    /\ The(greq).resp = Some(Redirect("/change-password"))
    /\ The(greq).handler = ""

\* C10: on a route with a role allow-list, a request with a valid token whose
\* identity has must_change_password = false and a role outside the list
\* ends with 403 Forbidden, not a redirect to /login; a request with no token
\* ends with a redirect to /login; with a valid token and the flag false the
\* handler is dispatched iff the role is in the list.
C10_RoleDenial ==
    greq # None =>
        LET r == The(greq) IN
        HasGate(r.route, "RequireRole") =>
            /\ \A u \in Resolved(r) :
                ~u.MustChangePassword =>
                    /\ u.Role \notin AllowList(r.route) =>
                        /\ r.resp = Some(HttpError(403, "Forbidden"))
                        /\ The(r.resp).location # "/login"
                    /\ Dispatched(r) <=> u.Role \in AllowList(r.route)
            /\ r.sentToken = None => r.resp = Some(Redirect("/login")) /\ r.handler = ""

C10_Witness ==
    /\ greq # None
    /\ The(greq).route.path = "/invites"
    /\ \E u \in Resolved(The(greq)) : ~u.MustChangePassword /\ u.Role = RoleEmployee
    /\ The(greq).resp = Some(HttpError(403, "Forbidden"))

----------------------------------------------------------------------------
(* User administration: the handlers behind the Admin-only routes that       *)
(* rewrite or remove identity rows while tokens issued earlier are in use.   *)

RouteFor(method, path) == CHOOSE route \in Routes : route.method = method /\ route.path = path

\* the ids a form can name: the two rows and one that was never there
FormIDs == {1, 2, 3}

\* UpdateUser, the switch on the form's role: any other string leaves the role
NewRole(editUser, roleStr) ==
    IF roleStr \in {"EMPLOYEE", "HR", "ADMIN"} THEN roleStr ELSE editUser.Role

\* UpdateUser: the rows after the handler ran for the context identity `user`
\* (the form leaves full_name, team_id and project_id empty)
UpdateUser(user, id, roleStr) ==
    IF user.Role # RoleAdmin
    THEN users
    ELSE IF FirstUser(id) = None
    THEN users
    ELSE LET editUser == The(FirstUser(id)) IN
         (users \ {editUser}) \cup {[editUser EXCEPT !.Role = NewRole(editUser, roleStr),
                                                      !.TeamID = None, !.ProjectID = None]}

\* mutant: the target is deleted, the actor's own account too
DeleteUser_NoSelfCheck(user, id) ==
    IF user.Role # RoleAdmin
    THEN users
    ELSE users \ FirstUser(id)

\* DeleteUser: the rows after the handler ran; the row is soft-deleted, which
\* hides it from every later First
DeleteUser(user, id) ==
    IF user.Role # RoleAdmin
    THEN users
    ELSE IF id = user.ID
    THEN users
    ELSE users \ FirstUser(id)

\* DeleteUser: the overtime entries after the handler ran; those of the target
\* are soft-deleted before the user row is
DeleteUserEntries(user, id) ==
    IF user.Role # RoleAdmin
    THEN entries
    ELSE IF id = user.ID
    THEN entries
    ELSE {IF e.UserID = id THEN [e EXCEPT !.deleted = TRUE] ELSE e : e \in entries}

\* DeleteUser: what the handler answers
DeleteUserResponse(user, id) ==
    IF user.Role # RoleAdmin
    THEN HttpError(403, "Forbidden")
    ELSE IF id = user.ID
    THEN RedirectError("/users", "Cannot delete your own account")
    ELSE Redirect("/users")

\* a client sends the token it holds as cookie, or sends nothing
LiveCredentials ==
    {Credential(NoCookie, NoHeader)} \cup {Credential(TokenCookie(tok), NoHeader) : t \in tok}

\* the sessions of other clients: each account can have logged in, from
\* another browser, within the current second
OtherSessions == {GenerateToken(u, JWTExpiration, now, now) : u \in users}

\* the administration forms arrive from this client or from another session
AdminCredentials ==
    LiveCredentials \cup {Credential(TokenCookie(Some(t)), NoHeader) : t \in OtherSessions}

\* the record of a served request
Served(route, cred, out) ==
    [route |-> route, cred |-> cred,
     sentToken |-> ExtractToken([method |-> route.method, path |-> route.path,
                                 cookie |-> cred.cookie,
                                 authorization |-> cred.authorization]),
     at |-> now, user |-> out.user, trace |-> out.trace,
     resp |-> out.resp, handler |-> out.handler]

\* the record of a served form: the request, what was submitted, and what the
\* handler answered if it was dispatched
ServedForm(route, cred, out, form, answer) ==
    [route |-> route, cred |-> cred,
     sentToken |-> ExtractToken([method |-> route.method, path |-> route.path,
                                 cookie |-> cred.cookie,
                                 authorization |-> cred.authorization]),
     at |-> now, user |-> out.user, trace |-> out.trace,
     resp |-> out.resp, handler |-> out.handler,
     form |-> form, answer |-> IF out.resp = None THEN Some(answer) ELSE None]

\* POST /users/edit through its chain
PostUsersEdit(cred, id, roleStr) ==
    LET route == RouteFor("POST", "/users/edit")
        req == [method |-> route.method, path |-> route.path,
                cookie |-> cred.cookie, authorization |-> cred.authorization]
        out == RunChain(route, 1, req, None, <<>>) IN
    /\ greq = None
    /\ greq' = Some(Served(route, cred, out))
    /\ users' = IF out.resp = None THEN UpdateUser(The(out.user), id, roleStr) ELSE users
    /\ UNCHANGED <<now, jwtSecret, tokenVars, invites, reqs, pcall, boot, entries, team_supervisors>>

\* mutant: the role gate writes its 403 and calls the handler all the same
PostUsersDelete_GateFallsThrough(cred, id) ==
    LET route == RouteFor("POST", "/users/delete")
        req == [method |-> route.method, path |-> route.path,
                cookie |-> cred.cookie, authorization |-> cred.authorization]
        out == RunChain(route, 1, req, None, <<>>) IN
    /\ greq = None
    /\ greq' = Some(Served(route, cred, out))
    /\ users' = IF out.user # None
                THEN users \ (IF id = The(out.user).ID THEN {} ELSE FirstUser(id))
                ELSE users
    /\ entries' = IF out.user # None THEN DeleteUserEntries(The(out.user), id) ELSE entries
    /\ UNCHANGED <<now, jwtSecret, tokenVars, invites, reqs, pcall, boot, team_supervisors>>

\* POST /users/delete through its chain
PostUsersDelete(cred, id) ==
    LET route == RouteFor("POST", "/users/delete")
        req == [method |-> route.method, path |-> route.path,
                cookie |-> cred.cookie, authorization |-> cred.authorization]
        out == RunChain(route, 1, req, None, <<>>) IN
    /\ greq = None
    /\ greq' = Some(ServedForm(route, cred, out, [id |-> id],
                               IF out.resp = None
                               THEN DeleteUserResponse(The(out.user), id)
                               ELSE Redirect("/login")))
    /\ users' = IF out.resp = None THEN DeleteUser(The(out.user), id) ELSE users
    /\ entries' = IF out.resp = None THEN DeleteUserEntries(The(out.user), id) ELSE entries
    /\ UNCHANGED <<now, jwtSecret, tokenVars, invites, reqs, pcall, boot, team_supervisors>>

\* an administrator who has changed the seeded password, and a second account
InitLive ==
    /\ now = 0
    /\ jwtSecret = "s1"
    /\ tok = None
    /\ tokIssue = None
    /\ vres = None
    /\ \E role \in Roles : users = {ChangedAdmin, Alice(role, FALSE)}
    /\ invites = {}
    /\ reqs = <<>>
    /\ greq = None
    /\ pcall = None
    /\ boot = Started(jwtSecret)
    /\ entries = {}
    /\ team_supervisors = {}

NextLive ==
    \/ TickSecond /\ UNCHANGED <<jwtSecret, tokenVars, storeVars, reqs, greq, pcall, boot>>
    \/ \E username \in Usernames, password \in LoginPasswords : Login(username, password)
    \/ \E route \in Routes, cred \in LiveCredentials : Serve(route, cred)
    \/ \E cred \in AdminCredentials, id \in FormIDs, roleStr \in RoleStrings :
        PostUsersEdit(cred, id, roleStr)
    \/ \E cred \in AdminCredentials, id \in FormIDs : PostUsersDelete(cred, id)
    \/ Done

SpecLive == InitLive /\ [][NextLive]_vars

----------------------------------------------------------------------------
(* Authorization against the live store *)

\* the request served by this step
ServedNow(r) == greq = None /\ greq' = Some(r)

ValidSent(r) == r.sentToken # None /\ ValidateToken(The(r.sentToken), r.at).err = "nil"

SentClaims(r) == The(ValidateToken(The(r.sentToken), r.at).claims)

\* C11: authorization uses the role on the live identity row, not the role in
\* the token claims: a request bearing a token issued before UpdateUser
\* changed the role is gated by the role the row holds when the request is
\* served (outside the list: 403; inside: dispatched), whatever role the
\* token carries.
C11_LiveRoleGates ==
    [][\A r \in greq' :
        (ServedNow(r) /\ HasGate(r.route, "RequireRole")) =>
            \A u \in Resolved(r) :
                ~u.MustChangePassword =>
                    /\ Dispatched(r) <=> u.Role \in AllowList(r.route)
                    /\ u.Role \notin AllowList(r.route) =>
                        r.resp = Some(HttpError(403, "Forbidden"))]_vars

\* a downgraded administrator: the token says ADMIN, the answer is 403
C11_Witness ==
    /\ greq # None
    /\ The(greq).route.path = "/users"
    /\ ValidSent(The(greq))
    /\ SentClaims(The(greq)).Role = RoleAdmin
    /\ \E u \in Resolved(The(greq)) : u.Role = RoleEmployee
    /\ The(greq).resp = Some(HttpError(403, "Forbidden"))

\* C12: whenever ValidateToken fails in AuthMiddleware (bad signature,
\* malformed or expired token alike) the response clears the token cookie and
\* redirects to /login, and the next handler is never invoked.
C12_FailedVerifyClearsCookie ==
    greq # None =>
        LET r == The(greq) IN
        (HasGate(r.route, "AuthMiddleware") /\ r.sentToken # None /\ ~ValidSent(r)) =>
            /\ r.resp = Some(RedirectClearingCookie("/login"))
            /\ The(r.resp).clearCookie
            /\ The(r.resp).cookie = None
            /\ r.handler = ""
            /\ r.trace = <<"AuthMiddleware">>

\* an expired token on the dashboard
C12_Witness ==
    /\ greq # None
    /\ The(greq).route.path = "/dashboard"
    /\ The(greq).sentToken # None
    /\ ValidateToken(The(The(greq).sentToken), The(greq).at).err = "ErrTokenExpired"
    /\ The(greq).resp = Some(RedirectClearingCookie("/login"))

\* C13: if the identity named by a validly signed, unexpired token is no
\* longer in the store, every request bearing that token ends with a redirect
\* to /login and reaches no handler.
C13_DeletedIdentityRedirected ==
    [][\A r \in greq' :
        (/\ ServedNow(r)
         /\ HasGate(r.route, "AuthMiddleware")
         /\ ValidSent(r)
         /\ FirstUser(SentClaims(r).UserID) = None)
        => r.resp = Some(Redirect("/login")) /\ r.handler = ""]_vars

C13_Witness ==
    /\ greq # None
    /\ ValidSent(The(greq))
    /\ FirstUser(SentClaims(The(greq)).UserID) = None
    /\ The(greq).route.path = "/dashboard"
    /\ The(greq).resp = Some(Redirect("/login"))
    /\ The(greq).handler = ""

----------------------------------------------------------------------------
(* What an identity that must change its password can reach *)

Protected(route) == HasGate(route, "AuthMiddleware")

\* C14, as claimed: for an identity with must_change_password = true the
\* only protected endpoints whose handlers are dispatched are GET and POST
\* /change-password; every other protected route ends with a redirect to
\* /change-password.
C14_AsClaimed ==
    greq # None =>
        LET r == The(greq) IN
        \A u \in Resolved(r) :
            (u.MustChangePassword /\ Protected(r.route)) =>
                /\ Dispatched(r) => r.route.path = "/change-password"
                /\ r.route.path # "/change-password" =>
                    r.resp = Some(Redirect("/change-password"))

\* C14, amended: for an identity with must_change_password = true the only
\* protected endpoints whose handlers are dispatched are GET and POST
\* /change-password and GET /logout; every other protected route ends with a
\* redirect to /change-password.
C14_OnlyChangePasswordAndLogout ==
    greq # None =>
        LET r == The(greq) IN
        \A u \in Resolved(r) :
            (u.MustChangePassword /\ Protected(r.route)) =>
                /\ Dispatched(r) <=>
                    \/ r.route.path = "/change-password"
                    \/ r.route.path = "/logout" /\ r.route.method = "GET"
                /\ ~Dispatched(r) =>
                    r.resp = Some(Redirect("/change-password")) /\ r.handler = ""

\* the seeded administrator, password unchanged, logs out
C14_Witness ==
    /\ greq # None
    /\ \E u \in Resolved(The(greq)) : u.MustChangePassword
    /\ The(greq).route.path = "/logout"
    /\ Dispatched(The(greq))
    /\ The(greq).handler = "Logout"

----------------------------------------------------------------------------
(* Where the token is taken from *)

\* what the gates answer when the cookie is the only credential read
CookieOnly(r) ==
    RunChain(r.route, 1,
             [method |-> r.route.method, path |-> r.route.path,
              cookie |-> r.cred.cookie, authorization |-> NoHeader],
             None, <<>>)

\* C15: the Authorization: Bearer header is consulted only when the request
\* carries no token cookie; whenever a token cookie is present the cookie's
\* value, never the header's, is the token that is verified, so the answer is
\* the one the same request gets without its header.
C15_CookieShadowsHeader ==
    [][\A r \in greq' :
        (ServedNow(r) /\ Protected(r.route) /\ r.cred.cookie.present) =>
            /\ r.sentToken = r.cred.cookie.value
            /\ r.resp = CookieOnly(r).resp
            /\ r.handler = CookieOnly(r).handler]_vars

----------------------------------------------------------------------------
(* models/user.go: the permission predicates, called on every actor *)

MaxID == 3

\* what the role column can hold: the three roles, and strings that are none
RoleValues == Roles \cup {"", "MANAGER"}

Actors == [ID : 0..MaxID, Role : RoleValues]

IsAdmin(u) == u.Role = RoleAdmin
IsHR(u) == u.Role = RoleHR

\* mutant: HR manages everybody's records too
CanManageOvertimeFor_HRToo(u, userID) ==
    IF IsAdmin(u) \/ IsHR(u) THEN TRUE ELSE u.ID = userID

CanManageOvertimeFor(u, userID) ==
    IF IsAdmin(u) THEN TRUE ELSE u.ID = userID

CanViewAllOvertime(u) == IsAdmin(u) \/ IsHR(u)

\* mutant: only administrators export
CanExport_AdminOnly(u) == IsAdmin(u)

CanExport(u) == IsAdmin(u) \/ IsHR(u)

PermCall(fn, actor, ownerId, result) ==
    Some([fn |-> fn, actor |-> actor, ownerId |-> ownerId, result |-> result])

InitPerm ==
    /\ now = 0
    /\ jwtSecret = "s1"
    /\ tok = None
    /\ tokIssue = None
    /\ vres = None
    /\ users = {SeedAdmin}
    /\ invites = {}
    /\ reqs = <<>>
    /\ greq = None
    /\ pcall = None
    /\ boot = Started(jwtSecret)
    /\ entries = {}
    /\ team_supervisors = {}

CallCanManageOvertimeFor(actor, ownerId) ==
    /\ pcall' = PermCall("CanManageOvertimeFor", actor, ownerId,
                         CanManageOvertimeFor(actor, ownerId))
    /\ UNCHANGED <<now, jwtSecret, tokenVars, storeVars, reqs, greq, boot>>

CallCanViewAllOvertime(actor) ==
    /\ pcall' = PermCall("CanViewAllOvertime", actor, 0, CanViewAllOvertime(actor))
    /\ UNCHANGED <<now, jwtSecret, tokenVars, storeVars, reqs, greq, boot>>

CallCanExport(actor) ==
    /\ pcall' = PermCall("CanExport", actor, 0, CanExport(actor))
    /\ UNCHANGED <<now, jwtSecret, tokenVars, storeVars, reqs, greq, boot>>

NextPerm ==
    \/ \E actor \in Actors, ownerId \in 0..MaxID : CallCanManageOvertimeFor(actor, ownerId)
    \/ \E actor \in Actors : CallCanViewAllOvertime(actor)
    \/ \E actor \in Actors : CallCanExport(actor)

SpecPerm == InitPerm /\ [][NextPerm]_vars

\* C19: CanManageOvertimeFor(actor, ownerId) is true iff actor.Role is Admin
\* or actor.ID = ownerId, for every role and every pair of ids.
C19_CanManageIff ==
    \A c \in pcall :
        c.fn = "CanManageOvertimeFor" =>
            (c.result <=> (c.actor.Role = "ADMIN" \/ c.actor.ID = c.ownerId))

\* an HR actor was denied another owner's records
C19_Witness ==
    \E c \in pcall :
        /\ c.fn = "CanManageOvertimeFor"
        /\ c.actor.Role = "HR" /\ c.actor.ID # c.ownerId
        /\ ~c.result

\* C20: CanViewAllOvertime(actor) and CanExport(actor) are each true iff
\* actor.Role is Admin or HR.
C20_ViewAllAndExportIff ==
    \A c \in pcall :
        c.fn \in {"CanViewAllOvertime", "CanExport"} =>
            (c.result <=> c.actor.Role \in {"ADMIN", "HR"})

\* an HR actor may export
C20_Witness ==
    \E c \in pcall : c.fn = "CanExport" /\ c.actor.Role = "HR" /\ c.result

----------------------------------------------------------------------------
(* Invite administration: POST /invites behind the Admin-only chain, while   *)
(* roles are edited and tokens age.                                          *)

\* mutant: HR creates invites too
CanCreateInvites_HRToo(u) == IsAdmin(u) \/ IsHR(u)

CanCreateInvites(u) == IsAdmin(u)

FullNames == {"", "Al Ice"}

\* the row CreateInvite builds
NewInvite(user, fullName, role) ==
    [ID |-> NextInviteID, Code |-> Codes[NextInviteID], FullName |-> fullName,
     Role |-> role, Used |-> FALSE, CreatedBy |-> user.ID,
     ExpiresAt |-> now + InviteExpiration, TeamID |-> None, ProjectID |-> None]

\* mutant: the form's role string is stored as it came
InvitesAfterCreate_AnyRole(user, fullName, roleStr) ==
    IF ~CanCreateInvites(user) THEN invites
    ELSE IF fullName = "" THEN invites
    ELSE IF NextInviteID > Len(Codes) THEN invites
    ELSE invites \cup {NewInvite(user, fullName, roleStr)}

\* AuthHandler.CreateInvite: the invites table after the handler ran for the
\* context identity `user`
InvitesAfterCreate(user, fullName, roleStr) ==
    IF ~CanCreateInvites(user) THEN invites
    ELSE IF fullName = "" THEN invites
    ELSE IF roleStr \notin {"EMPLOYEE", "HR", "ADMIN"} THEN invites
    ELSE IF NextInviteID > Len(Codes) THEN invites
    ELSE invites \cup {NewInvite(user, fullName, roleStr)}

\* POST /invites through its chain
PostInvites(cred, fullName, roleStr) ==
    LET route == RouteFor("POST", "/invites")
        req == [method |-> route.method, path |-> route.path,
                cookie |-> cred.cookie, authorization |-> cred.authorization]
        out == RunChain(route, 1, req, None, <<>>) IN
    /\ greq = None
    /\ greq' = Some(Served(route, cred, out))
    /\ invites' = IF out.resp = None
                  THEN InvitesAfterCreate(The(out.user), fullName, roleStr)
                  ELSE invites
    /\ UNCHANGED <<now, jwtSecret, tokenVars, users, reqs, pcall, boot, entries, team_supervisors>>

\* (the clock stands still here: nothing in the handler but ExpiresAt reads it)
NextInvites ==
    \/ \E username \in Usernames, password \in LoginPasswords : Login(username, password)
    \/ \E cred \in AdminCredentials, id \in FormIDs, roleStr \in RoleStrings :
        PostUsersEdit(cred, id, roleStr)
    \/ \E cred \in AdminCredentials, fullName \in FullNames, roleStr \in RoleStrings :
        PostInvites(cred, fullName, roleStr)
    \/ Done

SpecInvites == InitLive /\ [][NextInvites]_vars

\* C21: CanCreateInvites(actor) is true iff actor.Role is Admin, and every
\* invite that is persisted is created by a request whose resolved live
\* identity has role Admin at that moment, with CreatedBy that identity's id.
C21_InvitesByAdmins ==
    [][/\ \A a \in Actors : CanCreateInvites(a) <=> a.Role = "ADMIN"
       /\ \A i \in invites' \ invites :
            \E r \in greq' :
                /\ ServedNow(r)
                /\ \E u \in Resolved(r) : u.Role = "ADMIN" /\ i.CreatedBy = u.ID]_vars

\* the second account, made an administrator, created an invite
C21_Witness ==
    /\ \E i \in invites : i.CreatedBy = 2
    /\ \E r \in greq :
        /\ r.route.path = "/invites" /\ r.route.method = "POST"
        /\ Dispatched(r)
        /\ \E u \in Resolved(r) : u.ID = 2 /\ u.Role = "ADMIN"

----------------------------------------------------------------------------
(* The gates and the store *)

\* the handlers behind the gates that write identity or invite rows
WritingHandlers == {"UpdateUser", "DeleteUser", "CreateInvite"}

\* C22: no gate writes to the persistent store: when the gate chain answers a
\* request itself (redirect, 401 or 403) the identity and invite rows are the
\* same after the request as before, and when it passes the request on, rows
\* change only if the handler reached is one that writes them.
C22_GatesLeaveStore ==
    [][\A r \in greq' :
        (ServedNow(r) /\ (r.resp # None \/ r.handler \notin WritingHandlers)) =>
            users' = users /\ invites' = invites]_vars

\* a delete form stopped by the role gate
C22_Witness ==
    \E r \in greq :
        /\ r.route.path = "/users/delete"
        /\ r.resp = Some(HttpError(403, "Forbidden"))
        /\ r.trace = GateOrder
        /\ Cardinality(users) = 2

----------------------------------------------------------------------------
(* The claims of an issued token *)

\* C23: every token GenerateToken(I, D) produces carries ExpiresAt = IssuedAt
\* + D exactly, whenever it is issued (D a whole number of seconds, as the
\* configured 24 hours are).
C23_ExpiresIsIssuedPlusD ==
    \A t \in tok : \A i \in tokIssue :
        i.expiration % TicksPerSecond = 0 =>
            t.claims.ExpiresAt = t.claims.IssuedAt + i.expiration

----------------------------------------------------------------------------
(* The life of an invite row, under SpecRegister *)

\* C24: CreateInvite persists a new invite with Used = false, ExpiresAt =
\* creation time + the configured window, the requested role and CreatedBy =
\* the acting identity's id; so the invite is valid right after creation, its
\* fields but Used never change, and it stays valid until its window is over
\* or it is consumed.
C24_InviteCreatedValid ==
    [][/\ \A i \in invites' \ invites :
            (\A j \in invites : j.ID # i.ID) =>
                /\ \E user \in users, role \in Roles :
                    /\ user.Role = RoleAdmin
                    /\ i = [ID |-> i.ID, Code |-> i.Code, Role |-> role, Used |-> FALSE,
                            CreatedBy |-> user.ID, ExpiresAt |-> now + InviteExpiration,
                            FullName |-> i.FullName, TeamID |-> i.TeamID,
                            ProjectID |-> i.ProjectID]
                /\ IsValid(i, now')
       /\ \A i \in invites :
            \E j \in invites' :
                /\ j.ID = i.ID /\ j.Code = i.Code /\ j.Role = i.Role
                /\ j.CreatedBy = i.CreatedBy /\ j.ExpiresAt = i.ExpiresAt
                /\ (IsValid(i, now) /\ ~IsValid(j, now')) =>
                    (now' >= i.ExpiresAt \/ (j.Used /\ ~i.Used))]_vars

\* an HR invite, a while after its creation, still valid
C24_Witness ==
    \E i \in invites :
        /\ i.Role = RoleHR
        /\ i.ExpiresAt - InviteExpiration < now
        /\ IsValid(i, now)

----------------------------------------------------------------------------
(* Sessions: a client keeps the token it has while it logs out, changes its  *)
(* password, or has its role edited or its account deleted.                  *)

\* the passwords a change-password form proposes: a good one and a short one
NewPasswords == {"secret2", "abc"}

\* mutant: the length of the new password is not checked
ChangePassword_NoLengthCheck(user, currentPassword, newPassword, confirmPassword) ==
    IF user.PasswordHash # Bcrypt(currentPassword) THEN users
    ELSE IF newPassword # confirmPassword THEN users
    ELSE {u \in users : u.ID # user.ID}
         \cup {[user EXCEPT !.PasswordHash = Bcrypt(newPassword),
                            !.MustChangePassword = FALSE]}

\* mutant: the new hash is stored and the flag is left as it was
ChangePassword_KeepsFlag(user, currentPassword, newPassword, confirmPassword) ==
    IF user.PasswordHash # Bcrypt(currentPassword) THEN users
    ELSE IF newPassword # confirmPassword THEN users
    ELSE IF Len(newPassword) < 5 THEN users
    ELSE {u \in users : u.ID # user.ID}
         \cup {[user EXCEPT !.PasswordHash = Bcrypt(newPassword)]}

\* AuthHandler.ChangePassword: the rows after the handler ran for the context
\* identity `user`; Save(user) writes the whole row
ChangePassword(user, currentPassword, newPassword, confirmPassword) ==
    IF user.PasswordHash # Bcrypt(currentPassword) THEN users
    ELSE IF newPassword # confirmPassword THEN users
    ELSE IF Len(newPassword) < 5 THEN users
    ELSE {u \in users : u.ID # user.ID}
         \cup {[user EXCEPT !.PasswordHash = Bcrypt(newPassword),
                            !.MustChangePassword = FALSE]}

\* AuthHandler.ChangePassword: what the handler answers; dbErr is the error of
\* Save(user)
ChangePasswordResponse(user, currentPassword, newPassword, confirmPassword, dbErr) ==
    IF user.PasswordHash # Bcrypt(currentPassword)
    THEN RedirectError("/change-password", "Current password is incorrect")
    ELSE IF newPassword # confirmPassword
    THEN RedirectError("/change-password", "Passwords do not match")
    ELSE IF Len(newPassword) < 5
    THEN RedirectError("/change-password", "Password must be at least 5 characters")
    ELSE IF dbErr
    THEN RedirectError("/change-password", "Failed to update password")
    ELSE RedirectWithCookie("/dashboard",
            GenerateToken([user EXCEPT !.PasswordHash = Bcrypt(newPassword),
                                       !.MustChangePassword = FALSE],
                          JWTExpiration, now, now))

\* POST /change-password through its chain
PostChangePassword(cred, currentPassword, newPassword, confirmPassword, dbErr) ==
    LET route == RouteFor("POST", "/change-password")
        req == [method |-> route.method, path |-> route.path,
                cookie |-> cred.cookie, authorization |-> cred.authorization]
        out == RunChain(route, 1, req, None, <<>>)
        form == [current_password |-> currentPassword, new_password |-> newPassword,
                 confirm_password |-> confirmPassword, dbErr |-> dbErr] IN
    /\ greq = None
    /\ greq' = Some(ServedForm(route, cred, out, form,
                    IF out.resp = None
                    THEN ChangePasswordResponse(The(out.user), currentPassword,
                                                newPassword, confirmPassword, dbErr)
                    ELSE Redirect("/login")))
    /\ users' = IF out.resp = None /\ ~dbErr
                THEN ChangePassword(The(out.user), currentPassword, newPassword,
                                    confirmPassword)
                ELSE users
    /\ UNCHANGED <<now, jwtSecret, tokenVars, invites, reqs, pcall, boot, entries, team_supervisors>>

\* the routes a session is tried on: logging out, a page for everybody, a
\* page for administrators
SessionRoutes ==
    {RouteFor("GET", "/logout"), RouteFor("GET", "/dashboard"), RouteFor("GET", "/users")}

NextSession ==
    \/ TickSecond /\ UNCHANGED <<jwtSecret, tokenVars, storeVars, reqs, greq, pcall, boot>>
    \/ \E username \in Usernames, password \in LoginPasswords : Login(username, password)
    \/ \E route \in SessionRoutes, cred \in LiveCredentials : Serve(route, cred)
    \/ \E cred \in LiveCredentials, currentPassword \in LoginPasswords,
          newPassword \in NewPasswords, confirmPassword \in NewPasswords,
          dbErr \in BOOLEAN :
            PostChangePassword(cred, currentPassword, newPassword, confirmPassword, dbErr)
    \/ \E cred \in AdminCredentials, id \in FormIDs, roleStr \in RoleStrings :
        PostUsersEdit(cred, id, roleStr)
    \/ \E cred \in AdminCredentials, id \in FormIDs : PostUsersDelete(cred, id)
    \/ Done

SpecSession == InitLive /\ [][NextSession]_vars

\* the request got past AuthMiddleware
PassedAuth(r) == ~(r.trace = <<"AuthMiddleware">> /\ r.resp # None)

\* AuthMiddleware lets the credentials of request r through
ReplayPasses(r) ==
    AuthMiddleware([method |-> "GET", path |-> "/dashboard", cookie |-> r.cred.cookie,
                    authorization |-> r.cred.authorization]).resp = None

\* C25: a signed token is never revoked: a request gets past authentication
\* exactly when its token is validly signed and unexpired and its identity
\* row exists, and right after a Logout, a password change or a role change
\* served with a token, that token still authenticates if the row exists.
C25_NeverRevoked ==
    [][\A r \in greq' :
        (ServedNow(r) /\ Protected(r.route)) =>
            /\ PassedAuth(r) <=>
                (ValidSent(r) /\ FirstUser(SentClaims(r).UserID) # None)
            /\ (/\ Dispatched(r)
                /\ r.handler \in {"Logout", "ChangePassword", "UpdateUser"})
               => (ReplayPasses(r))']_vars

\* a token issued under the old password and the old role, on the dashboard
C25_Witness ==
    \E r \in greq :
        /\ r.route.path = "/dashboard"
        /\ Dispatched(r)
        /\ \E u \in Resolved(r) :
            /\ u.PasswordHash = Bcrypt("secret2")
            /\ u.Role # SentClaims(r).Role

----------------------------------------------------------------------------
(* func main: from the environment to the serving router *)

\* config.Load: the default of JWT_SECRET
DefaultSecret == "your-super-secret-key-change-in-production"

\* what JWT_SECRET can hold at startup; "" is unset or empty
EnvSecrets == {""} \cup Secrets

getEnv(value, defaultValue) == IF value # "" THEN value ELSE defaultValue

\* the process starts: jwtSecret is the nil slice, nothing is connected
InitBoot ==
    /\ now = 0
    /\ jwtSecret = ""
    /\ tok = None
    /\ tokIssue = None
    /\ vres = None
    /\ users = {}
    /\ invites = {}
    /\ reqs = <<>>
    /\ greq = None
    /\ pcall = None
    /\ \E env \in EnvSecrets : boot = [pc |-> "load", env |-> env, cfg |-> "", writes |-> 0]
    /\ entries = {}
    /\ team_supervisors = {}

\* cfg := config.Load()
Load ==
    /\ boot.pc = "load"
    /\ boot' = [boot EXCEPT !.pc = "secret", !.cfg = getEnv(boot.env, DefaultSecret)]
    /\ UNCHANGED <<now, jwtSecret, tokenVars, storeVars, reqs, greq, pcall>>

\* middleware.SetJWTSecret(cfg.JWTSecret)
SetJWTSecret ==
    /\ boot.pc = "secret"
    /\ jwtSecret' = boot.cfg
    /\ boot' = [boot EXCEPT !.pc = "dbinit", !.writes = @ + 1]
    /\ UNCHANGED <<now, tokenVars, storeVars, reqs, greq, pcall>>

\* database.Init: on an error main ends in log.Fatalf, otherwise the default
\* administrator is seeded
DatabaseInit(ok) ==
    /\ boot.pc = "dbinit"
    /\ IF ok
       THEN /\ users' = users \cup {SeedAdmin}
            /\ boot' = [boot EXCEPT !.pc = "listen"]
       ELSE /\ UNCHANGED users
            /\ boot' = [boot EXCEPT !.pc = "exited"]
    /\ UNCHANGED <<now, jwtSecret, tokenVars, invites, reqs, greq, pcall, entries, team_supervisors>>

\* http.ListenAndServe: from here on requests are accepted
ListenAndServe ==
    /\ boot.pc = "listen"
    /\ boot' = [boot EXCEPT !.pc = "serving"]
    /\ UNCHANGED <<now, jwtSecret, tokenVars, storeVars, reqs, greq, pcall>>

\* mutant: the listener is started in the background as the first thing
Accepting_FromTheStart == boot.pc # "exited"

\* requests reach handlers only once ListenAndServe runs
Accepting == boot.pc = "serving"

NextBoot ==
    \/ Load
    \/ SetJWTSecret
    \/ \E ok \in BOOLEAN : DatabaseInit(ok)
    \/ ListenAndServe
    \/ Accepting /\ TickSecond
       /\ UNCHANGED <<jwtSecret, tokenVars, storeVars, reqs, greq, pcall, boot>>
    \/ Accepting /\ \E username \in Usernames, password \in LoginPasswords :
                        Login(username, password)
    \/ Accepting /\ \E route \in SessionRoutes, cred \in Credentials : Serve(route, cred)
    \/ Accepting /\ Done

SpecBoot == InitBoot /\ [][NextBoot]_vars

\* C26: the process-wide secret is written exactly once, by SetJWTSecret at
\* startup before any request is accepted, and only read afterwards: no
\* token is signed or verified before or at a write, and every token of the
\* process is signed and verified under the one secret.
C26_SecretWrittenOnce ==
    [][/\ jwtSecret' # jwtSecret => (boot.pc = "secret" /\ boot.writes = 0)
       /\ boot'.writes <= 1
       /\ (tok' # tok \/ greq' # greq) =>
            /\ boot.writes = 1 /\ boot'.writes = 1
            /\ jwtSecret' = jwtSecret /\ jwtSecret = boot.cfg
       /\ \A t \in tok' : t.sig[1] = jwtSecret']_vars

\* a token signed after startup was verified on a request
C26_Witness ==
    /\ boot.pc = "serving" /\ boot.writes = 1
    /\ \E r \in greq : ValidSent(r) /\ The(r.sentToken).sig[1] = jwtSecret /\ Dispatched(r)

\* C27: a blank or default secret is a runtime fault: when JWT_SECRET is unset
\* or empty at startup, the process does not go on to serve requests and
\* sign tokens with the built-in default secret.
C27_NoDefaultSecretInService ==
    /\ (boot.pc = "serving" /\ boot.env = "") => jwtSecret # DefaultSecret
    /\ \A t \in tok : t.sig[1] # DefaultSecret

----------------------------------------------------------------------------
(* The authentication failures, as the client sees them *)

\* the failure of a served request: "MissingToken" when no token string was
\* extracted, else the error of ValidateToken ("nil": none)
AuthError(r) ==
    IF r.sentToken = None
    THEN "MissingToken"
    ELSE ValidateToken(The(r.sentToken), r.at).err

\* C28 as stated: a missing token, an invalid signature and an expired token
\* all get the same response, the redirect to /login with the token cookie
\* cleared.
C28_AsClaimed ==
    \A r \in greq :
        (HasGate(r.route, "AuthMiddleware")
         /\ AuthError(r) \in {"MissingToken", "ErrTokenSignatureInvalid", "ErrTokenExpired"}) =>
            r.resp = Some(RedirectClearingCookie("/login"))

\* C28: each of the three failures ends the request in AuthMiddleware with a
\* 303 to /login and no body; an invalid signature and an expired token get
\* one and the same response, with the token cookie cleared; a missing token
\* gets the redirect without the cookie being cleared.
C28_UniformButForMissing ==
    \A r \in greq :
        HasGate(r.route, "AuthMiddleware") =>
            /\ AuthError(r) \in {"ErrTokenSignatureInvalid", "ErrTokenExpired"} =>
                  r.resp = Some(RedirectClearingCookie("/login"))
            /\ AuthError(r) = "MissingToken" =>
                  /\ r.resp = Some(Redirect("/login"))
                  /\ ~The(r.resp).clearCookie
            /\ AuthError(r) \in {"MissingToken", "ErrTokenSignatureInvalid", "ErrTokenExpired"} =>
                  /\ The(r.resp).status = 303
                  /\ The(r.resp).location = "/login"
                  /\ The(r.resp).body = ""
                  /\ r.handler = ""
                  /\ r.trace = <<"AuthMiddleware">>

\* a token signed under another secret, sent as cookie to an Admin route
C28_Witness ==
    \E r \in greq :
        /\ r.route.path = "/users"
        /\ r.cred.cookie.present
        /\ AuthError(r) = "ErrTokenSignatureInvalid"
        /\ r.resp = Some(RedirectClearingCookie("/login"))

----------------------------------------------------------------------------
(* Where a role is written: POST /invites, POST /users/edit, POST /register *)

\* the three handlers that persist a role, interleaved: the forms of the
\* administration come from sessions of the current second, and one
\* registration is submitted
NextRoles ==
    \/ \E cred \in AdminCredentials, id \in FormIDs, roleStr \in RoleStrings :
        PostUsersEdit(cred, id, roleStr)
    \/ \E cred \in AdminCredentials, fullName \in FullNames, roleStr \in RoleStrings :
        PostInvites(cred, fullName, roleStr)
    \/ Done
    \/ reqs = <<>> /\ \E code \in RequestCodes : LoadInvite("submit", code)
    \/ \E k \in 1..Len(reqs) : CheckInvite(k)
    \/ \E k \in 1..Len(reqs), username \in {"alice", "bob"} :
            CheckForm(k, username, "secret", "secret")
    \/ \E k \in 1..Len(reqs), dbErr \in BOOLEAN : CreateUser(k, dbErr)
    \/ \E k \in 1..Len(reqs) : ClearMustChange(k)
    \/ \E k \in 1..Len(reqs), dbErr \in BOOLEAN : ConsumeInvite(k, dbErr)
    \/ \E k \in 1..Len(reqs) : LogIn(k)

SpecRoles == InitLive /\ [][NextRoles]_vars

\* C29: in every reachable state the role of every persisted identity and of
\* every persisted invite is one of the enumerated roles, whatever role
\* strings the forms of CreateInvite and UpdateUser carried.
C29_RolesEnumerated ==
    /\ \A u \in users : u.Role \in Roles
    /\ \A i \in invites : i.Role \in Roles

\* an identity registered from an invite carries the invite's role while the
\* role of another identity was edited
C29_Witness ==
    /\ \E u \in users, i \in invites :
        /\ u.Username = "bob"
        /\ u.fromInvite = i.Code
        /\ u.Role = i.Role
        /\ i.Role # RoleEmployee
    /\ \E u \in users : u.Username = "alice" /\ u.Role # RoleEmployee

----------------------------------------------------------------------------
(* Concurrent registrations with different invites *)

\* the codes of two invites the administrator has handed out
RaceCodes == <<"c1", "c2">>

\* the names the administrator typed for the two colleagues
RaceNames == <<"Al Ice", "Bo B">>

\* an invite as CreateInvite left it at time 0: the n-th colleague is bound
\* for team n, and only the second for a project
FreshInvite(n, role) ==
    [ID |-> n, Code |-> RaceCodes[n], FullName |-> RaceNames[n], Role |-> role,
     Used |-> FALSE, CreatedBy |-> SeedAdmin.ID, ExpiresAt |-> InviteExpiration,
     TeamID |-> Some(n), ProjectID |-> IF n = 2 THEN Some(1) ELSE None]

InitRace ==
    /\ now = 0
    /\ jwtSecret = "s1"
    /\ tok = None
    /\ tokIssue = None
    /\ vres = None
    /\ users = {ChangedAdmin}
    /\ \E role \in {RoleEmployee, RoleHR} :
        invites = {FreshInvite(n, role) : n \in 1..Len(RaceCodes)}
    /\ reqs = <<>>
    /\ greq = None
    /\ pcall = None
    /\ boot = Started(jwtSecret)
    /\ entries = {}
    /\ team_supervisors = {}

\* the Register handler, one database call at a time, for requests that
\* carry either code
NextRace ==
    \/ \E n \in 1..Len(RaceCodes) : LoadInvite("submit", RaceCodes[n])
    \/ \E k \in 1..Len(reqs) : CheckInvite(k)
    \/ \E k \in 1..Len(reqs), username \in {"al", "alice", "bob"},
          confirmPassword \in Passwords :
            CheckForm(k, username, "secret", confirmPassword)
    \/ \E k \in 1..Len(reqs), dbErr \in BOOLEAN : CreateUser(k, dbErr)
    \/ \E k \in 1..Len(reqs) : ClearMustChange(k)
    \/ \E k \in 1..Len(reqs), dbErr \in BOOLEAN : ConsumeInvite(k, dbErr)
    \/ \E k \in 1..Len(reqs) : LogIn(k)

SpecRace == InitRace /\ [][NextRace]_vars

\* the request was turned away because its username was taken
LostUsername(r) ==
    /\ r.pc = "done"
    /\ r.uid = 0
    /\ \/ r.resp = Some(RedirectError("/register", "Username already exists"))
       \/ r.resp = Some(FailedToCreate) /\ FindUser(r.username) # {}

\* C30: no two identities share a username, whatever the interleaving of
\* Register requests; of two requests with different valid invites that
\* submitted the same username at most one created an identity, and the
\* one that lost left its invite as it was: the invite is unused, unless a
\* further request that carried the same code registered with it.
C30_UsernamesUnique ==
    /\ \A u, v \in users : u.Username = v.Username => u = v
    /\ \A j, k \in 1..Len(reqs) :
        (j # k /\ reqs[j].code # reqs[k].code
         /\ reqs[j].username # "" /\ reqs[j].username = reqs[k].username) =>
            /\ ~(reqs[j].uid # 0 /\ reqs[k].uid # 0)
            /\ Cardinality({u \in users : u.Username = reqs[k].username}) <= 1
            /\ LostUsername(reqs[k]) =>
                  \A i \in FindInvite(reqs[k].code) :
                      i.Used => \E m \in 1..Len(reqs) :
                                    m # k /\ reqs[m].code = reqs[k].code /\ Consumed(reqs[m])

\* both requests got past the form's uniqueness check with the same username;
\* one registered and consumed its invite, the other was refused by Create
C30_Witness ==
    \E j, k \in 1..Len(reqs) :
        /\ reqs[j].code # reqs[k].code
        /\ reqs[j].username = reqs[k].username
        /\ Registered(reqs[j])
        /\ \E i \in FindInvite(reqs[j].code) : i.Used
        /\ reqs[k].resp = Some(FailedToCreate)
        /\ LostUsername(reqs[k])
        /\ \E i \in FindInvite(reqs[k].code) : ~i.Used

----------------------------------------------------------------------------
(* Leaving the password gate: identities whose flag is set change their       *)
(* password and go on to the gated pages.                                     *)

NextEscape ==
    \/ TickSecond /\ UNCHANGED <<jwtSecret, tokenVars, storeVars, reqs, greq, pcall, boot>>
    \/ \E username \in Usernames, password \in LoginPasswords : Login(username, password)
    \/ \E route \in SessionRoutes, cred \in LiveCredentials : Serve(route, cred)
    \/ \E cred \in LiveCredentials, currentPassword \in LoginPasswords,
          newPassword \in NewPasswords, confirmPassword \in NewPasswords,
          dbErr \in BOOLEAN :
            PostChangePassword(cred, currentPassword, newPassword, confirmPassword, dbErr)
    \/ Done

SpecEscape == InitGate /\ [][NextEscape]_vars

\* the submission passes the checks of ChangePassword for the identity u
ValidSubmission(form, u) ==
    /\ u.PasswordHash = Bcrypt(form.current_password)
    /\ form.new_password = form.confirm_password
    /\ Len(form.new_password) >= 5

\* the credentials of request r, sent to GET /dashboard, reach the handler
DashboardDispatched(r) ==
    RunChain(RouteFor("GET", "/dashboard"), 1,
             [method |-> "GET", path |-> "/dashboard", cookie |-> r.cred.cookie,
              authorization |-> r.cred.authorization], None, <<>>).resp = None

----------------------------------------------------------------------------
(* What Register writes into the new identity, under SpecRace *)

\* the identity row a request created, if it created one
CreatedBy(r) == {u \in users : r.uid # 0 /\ u.ID = r.uid}

----------------------------------------------------------------------------
(* handlers/overtime.go: creating, updating and deleting overtime entries *)

MaxEntries == 2

\* strconv.ParseUint on the id strings a form can carry; None is the error
ParseUint(str) ==
    IF str = "1" THEN Some(1)
    ELSE IF str = "2" THEN Some(2)
    ELSE IF str = "3" THEN Some(3)
    ELSE None

\* time.Parse("2006-01-02", dateStr); None is the error
ParseDate(dateStr) == IF dateStr = "2024-05-01" THEN Some(dateStr) ELSE None

\* what the forms carry: user_id / id, date, hours
IDStrings == {"", "1", "2", "x"}
DateStrings == {"2024-05-01", "soon"}
HoursValues == {0, 8, 9}

\* the auto-increment primary key; soft-deleted rows keep theirs
NextEntryID == Cardinality(entries) + 1

\* First(&entry, id): soft-deleted rows are not found
FirstEntry(id) == {e \in entries : e.ID = id /\ ~e.deleted}

\* what a handler leaves: the table and its response
Outcome(table, answer) == [entries |-> table, answer |-> answer]

\* OvertimeHandler.CreateEntry for the context identity `user`
CreateEntry(user, userIDStr, dateStr, hours) ==
    IF ParseDate(dateStr) = None
    THEN Outcome(entries, RedirectError("/overtime/new", "Invalid date format"))
    ELSE IF hours <= 0 \/ hours > 24
    THEN Outcome(entries, RedirectError("/overtime/new",
                                        "Invalid hours (must be between 0 and 24)"))
    ELSE LET targetUserID ==
                 IF userIDStr # "" /\ IsAdmin(user) /\ ParseUint(userIDStr) # None
                 THEN The(ParseUint(userIDStr))
                 ELSE user.ID IN
         IF ~CanManageOvertimeFor(user, targetUserID)
         THEN Outcome(entries, HttpError(403, "Forbidden"))
         ELSE Outcome(entries \cup {[ID |-> NextEntryID, UserID |-> targetUserID,
                                     Date |-> The(ParseDate(dateStr)), Hours |-> hours,
                                     deleted |-> FALSE]},
                      Redirect("/dashboard"))

\* mutant: the entry is updated for whoever asks
UpdateEntry_NoOwnerCheck(user, idStr, dateStr, hours) ==
    IF ParseUint(idStr) = None
    THEN Outcome(entries, RedirectError("/dashboard", "Invalid entry ID"))
    ELSE IF FirstEntry(The(ParseUint(idStr))) = None
    THEN Outcome(entries, RedirectError("/dashboard", "Entry not found"))
    ELSE LET entry == The(FirstEntry(The(ParseUint(idStr)))) IN
         IF ParseDate(dateStr) = None
         THEN Outcome(entries, RedirectError("/overtime/edit", "Invalid date format"))
         ELSE IF hours <= 0 \/ hours > 24
         THEN Outcome(entries, RedirectError("/overtime/edit", "Invalid hours"))
         ELSE Outcome((entries \ {entry})
                        \cup {[entry EXCEPT !.Date = The(ParseDate(dateStr)),
                                            !.Hours = hours]},
                      Redirect("/dashboard"))

\* OvertimeHandler.UpdateEntry for the context identity `user`
UpdateEntry(user, idStr, dateStr, hours) ==
    IF ParseUint(idStr) = None
    THEN Outcome(entries, RedirectError("/dashboard", "Invalid entry ID"))
    ELSE IF FirstEntry(The(ParseUint(idStr))) = None
    THEN Outcome(entries, RedirectError("/dashboard", "Entry not found"))
    ELSE LET entry == The(FirstEntry(The(ParseUint(idStr)))) IN
         IF ~CanManageOvertimeFor(user, entry.UserID)
         THEN Outcome(entries, HttpError(403, "Forbidden"))
         ELSE IF ParseDate(dateStr) = None
         THEN Outcome(entries, RedirectError("/overtime/edit", "Invalid date format"))
         ELSE IF hours <= 0 \/ hours > 24
         THEN Outcome(entries, RedirectError("/overtime/edit", "Invalid hours"))
         ELSE Outcome((entries \ {entry})
                        \cup {[entry EXCEPT !.Date = The(ParseDate(dateStr)),
                                            !.Hours = hours]},
                      Redirect("/dashboard"))

\* OvertimeHandler.DeleteEntry for the context identity `user`; Delete is a
\* soft delete
DeleteEntry(user, idStr) ==
    IF ParseUint(idStr) = None
    THEN Outcome(entries, RedirectError("/dashboard", "Invalid entry ID"))
    ELSE IF FirstEntry(The(ParseUint(idStr))) = None
    THEN Outcome(entries, RedirectError("/dashboard", "Entry not found"))
    ELSE LET entry == The(FirstEntry(The(ParseUint(idStr)))) IN
         IF ~CanManageOvertimeFor(user, entry.UserID)
         THEN Outcome(entries, HttpError(403, "Forbidden"))
         ELSE Outcome((entries \ {entry}) \cup {[entry EXCEPT !.deleted = TRUE]},
                      Redirect("/dashboard"))

\* the gates of a route, run on a request with these credentials
GatesOf(route, cred) ==
    RunChain(route, 1, [method |-> route.method, path |-> route.path,
                        cookie |-> cred.cookie, authorization |-> cred.authorization],
             None, <<>>)

\* a request that stopped at a gate leaves the table alone
Undispatched == Outcome(entries, Redirect("/login"))

\* POST /overtime/new through its chain
PostOvertimeNew(cred, userIDStr, dateStr, hours) ==
    LET route == RouteFor("POST", "/overtime/new")
        out == GatesOf(route, cred)
        outcome == IF out.resp = None
                   THEN CreateEntry(The(out.user), userIDStr, dateStr, hours)
                   ELSE Undispatched IN
    /\ greq = None
    /\ NextEntryID <= MaxEntries
    /\ greq' = Some(ServedForm(route, cred, out,
                               [user_id |-> userIDStr, date |-> dateStr, hours |-> hours],
                               outcome.answer))
    /\ entries' = outcome.entries
    /\ UNCHANGED <<now, jwtSecret, tokenVars, users, invites, reqs, pcall, boot, team_supervisors>>

\* POST /overtime/edit through its chain
PostOvertimeEdit(cred, idStr, dateStr, hours) ==
    LET route == RouteFor("POST", "/overtime/edit")
        out == GatesOf(route, cred)
        outcome == IF out.resp = None
                   THEN UpdateEntry(The(out.user), idStr, dateStr, hours)
                   ELSE Undispatched IN
    /\ greq = None
    /\ greq' = Some(ServedForm(route, cred, out,
                               [id |-> idStr, date |-> dateStr, hours |-> hours],
                               outcome.answer))
    /\ entries' = outcome.entries
    /\ UNCHANGED <<now, jwtSecret, tokenVars, users, invites, reqs, pcall, boot, team_supervisors>>

\* POST /overtime/delete through its chain
PostOvertimeDelete(cred, idStr) ==
    LET route == RouteFor("POST", "/overtime/delete")
        out == GatesOf(route, cred)
        outcome == IF out.resp = None
                   THEN DeleteEntry(The(out.user), idStr)
                   ELSE Undispatched IN
    /\ greq = None
    /\ greq' = Some(ServedForm(route, cred, out, [id |-> idStr], outcome.answer))
    /\ entries' = outcome.entries
    /\ UNCHANGED <<now, jwtSecret, tokenVars, users, invites, reqs, pcall, boot, team_supervisors>>

\* the overtime forms of the administrator and of a second account, sent with
\* sessions of the current second or with no session, and the administration's
\* deletion of accounts, which takes the account's entries along
NextEntries ==
    \/ \E cred \in AdminCredentials, userIDStr \in IDStrings, dateStr \in DateStrings,
          hours \in HoursValues : PostOvertimeNew(cred, userIDStr, dateStr, hours)
    \/ \E cred \in AdminCredentials, idStr \in IDStrings, dateStr \in DateStrings,
          hours \in HoursValues : PostOvertimeEdit(cred, idStr, dateStr, hours)
    \/ \E cred \in AdminCredentials, idStr \in IDStrings : PostOvertimeDelete(cred, idStr)
    \/ \E cred \in AdminCredentials, id \in FormIDs : PostUsersDelete(cred, id)
    \/ Done

SpecEntries == InitLive /\ [][NextEntries]_vars

\* the rows a step created, changed or soft-deleted
Touched == (entries' \ entries) \cup (entries \ entries')

\* C33: an overtime entry is created, updated or deleted only by a dispatched
\* request whose identity is Admin or owns the entry: what a non-Admin creates
\* is recorded under its own id whatever user_id it supplied, and a non-Admin
\* (HR too) that asks to update or delete an entry of somebody else gets 403
\* and the table stays as it was.
C33_EntriesByAdminOrOwner ==
    [][\A r \in greq' :
        ServedNow(r) =>
            /\ entries' # entries =>
                /\ Dispatched(r)
                /\ r.handler \in {"CreateEntry", "UpdateEntry", "DeleteEntry", "DeleteUser"}
                /\ \A u \in r.user, e \in Touched : u.Role = RoleAdmin \/ e.UserID = u.ID
            /\ (Dispatched(r) /\ r.handler = "CreateEntry") =>
                \A u \in r.user :
                    u.Role # RoleAdmin => \A e \in entries' \ entries : e.UserID = u.ID
            /\ (Dispatched(r) /\ r.handler \in {"UpdateEntry", "DeleteEntry"}) =>
                \A u \in r.user, id \in ParseUint(r.form.id) :
                    \A e \in FirstEntry(id) :
                        (u.Role # RoleAdmin /\ e.UserID # u.ID) =>
                            /\ r.answer = Some(HttpError(403, "Forbidden"))
                            /\ entries' = entries]_vars

\* an HR account was refused the deletion of the administrator's entry, which
\* the administrator had recorded for themselves
C33_Witness ==
    \E r \in greq, e \in entries :
        /\ r.handler = "DeleteEntry"
        /\ r.answer = Some(HttpError(403, "Forbidden"))
        /\ \E u \in r.user : u.Role = RoleHR /\ e.UserID # u.ID
        /\ ParseUint(r.form.id) = Some(e.ID)
        /\ ~e.deleted
        /\ \E f \in entries : f.UserID = 2

----------------------------------------------------------------------------
(* DeleteUser and the acting administrator, under SpecEntries *)

\* C37: a DeleteUser request that names the acting administrator is rejected
\* with the identity and its overtime entries as they were, and after any
\* DeleteUser request the actor's row is still there and its credentials
\* still authenticate.
C37_NoSelfDeletion ==
    [][\A r \in greq' :
        (ServedNow(r) /\ Dispatched(r) /\ r.handler = "DeleteUser") =>
            \A u \in r.user :
                /\ r.form.id = u.ID =>
                    /\ r.answer = Some(RedirectError("/users", "Cannot delete your own account"))
                    /\ users' = users
                    /\ entries' = entries
                /\ u \in users'
                /\ {e \in entries' : e.UserID = u.ID} = {e \in entries : e.UserID = u.ID}
                /\ (ReplayPasses(r))']_vars

\* the administrator, with an entry of their own, asked for their own deletion
C37_Witness ==
    \E r \in greq, u \in users :
        /\ r.handler = "DeleteUser"
        /\ Dispatched(r)
        /\ r.user = Some(u)
        /\ r.form.id = u.ID
        /\ r.answer = Some(RedirectError("/users", "Cannot delete your own account"))
        /\ \E e \in entries : e.UserID = u.ID /\ ~e.deleted

----------------------------------------------------------------------------
(* ChangePassword and its validation, under SpecEscape *)

\* the three rejections of the change-password form
ChangePasswordErrors ==
    {RedirectError("/change-password", "Current password is incorrect"),
     RedirectError("/change-password", "Passwords do not match"),
     RedirectError("/change-password", "Password must be at least 5 characters")}

\* C34: when ChangePassword fails validation (current password wrong, new
\* password and confirmation differ, or new password shorter than 5
\* characters) the stored hash and flag are unchanged and no token is issued;
\* only a fully valid submission replaces the hash, sets the flag to false
\* and issues a fresh token for the identity.
C34_FailedChangeLeavesRow ==
    [][\A r \in greq' :
        (ServedNow(r) /\ Dispatched(r) /\ r.handler = "ChangePassword") =>
            \A u \in r.user :
                /\ ~ValidSubmission(r.form, u) =>
                    /\ users' = users
                    /\ The(r.answer) \in ChangePasswordErrors
                    /\ The(r.answer).cookie = None
                /\ (users' # users \/ The(r.answer).cookie # None) =>
                    /\ ValidSubmission(r.form, u)
                    /\ ~r.form.dbErr
                /\ (ValidSubmission(r.form, u) /\ ~r.form.dbErr) =>
                    /\ users' = (users \ {u})
                         \cup {[u EXCEPT !.PasswordHash = Bcrypt(r.form.new_password),
                                         !.MustChangePassword = FALSE]}
                    /\ The(r.answer).cookie # None
                    /\ \A t \in The(r.answer).cookie :
                        /\ ValidateToken(t, now).err = "nil"
                        /\ The(ValidateToken(t, now).claims).UserID = u.ID
                        /\ The(ValidateToken(t, now).claims).IssuedAt = NewNumericDate(now)]_vars

\* a new password of three characters was turned down and the flag is still set
C34_Witness ==
    \E r \in greq :
        /\ r.handler = "ChangePassword"
        /\ Dispatched(r)
        /\ r.form.new_password = "abc" /\ r.form.confirm_password = "abc"
        /\ r.answer = Some(RedirectError("/change-password",
                                         "Password must be at least 5 characters"))
        /\ \E u \in r.user : u \in users /\ u.MustChangePassword

----------------------------------------------------------------------------
(* Register and the validation of its form, under SpecRegister *)

\* C35: when Register turns the form down (username shorter than 3
\* characters, passwords that differ, password shorter than 5 characters,
\* username taken) the request ends there with no identity created and no
\* token, and the invite row is as it was, valid if it was valid; a request
\* gets past the form only with a username of 3 or more characters that is
\* free and a password of 5 or more.
C35_FormErrorLeavesInvite ==
    [][\A k \in 1..Len(reqs) :
        reqs[k].pc = "form" =>
            /\ (reqs'[k].resp # None /\ The(reqs'[k].resp) \in FormErrors) =>
                /\ reqs'[k].pc = "done"
                /\ reqs'[k].uid = 0
                /\ The(reqs'[k].resp).cookie = None
                /\ users' = users
                /\ invites' = invites
                /\ \A i \in FindInvite(reqs[k].code) : IsValid(i, now) => IsValid(i, now')
            /\ reqs'[k].pc = "create" =>
                /\ Len(reqs'[k].username) >= 3
                /\ Len(reqs'[k].password) >= 5
                /\ FindUser(reqs'[k].username) = {}
            /\ reqs'[k].pc \in {"form", "done", "create"}]_vars

\* a form was turned down, and a later request registered with the same invite
C35_Witness ==
    \E k, l \in 1..Len(reqs) :
        /\ k < l
        /\ reqs[k].code = reqs[l].code
        /\ reqs[k].resp # None /\ The(reqs[k].resp) \in FormErrors
        /\ Registered(reqs[l])
        /\ CreatedFrom(reqs[k].code) # {}

----------------------------------------------------------------------------
(* POST /login and what it answers *)

\* mutant: an unknown username gets an error of its own
LoginResponse_NamesUnknown(username, password) ==
    IF FindUser(username) = {}
    THEN RedirectError("/login", "Unknown user")
    ELSE LET user == CHOOSE u \in FindUser(username) : TRUE IN
         IF user.PasswordHash # Bcrypt(password)
         THEN RedirectError("/login", "Invalid credentials")
         ELSE RedirectWithCookie(IF user.MustChangePassword THEN "/change-password"
                                                            ELSE "/dashboard",
                                 GenerateToken(user, JWTExpiration, now, now))

\* Login: the row of the username, the comparison with its hash, the token and
\* its cookie, and the redirect that depends on the flag (signing with HS256
\* and a byte-slice key returns no error)
LoginResponse(username, password) ==
    IF FindUser(username) = {}
    THEN RedirectError("/login", "Invalid credentials")
    ELSE LET user == CHOOSE u \in FindUser(username) : TRUE IN
         IF user.PasswordHash # Bcrypt(password)
         THEN RedirectError("/login", "Invalid credentials")
         ELSE RedirectWithCookie(IF user.MustChangePassword THEN "/change-password"
                                                            ELSE "/dashboard",
                                 GenerateToken(user, JWTExpiration, now, now))

\* POST /login, a public route: the client keeps the cookie it is sent
PostLogin(cred, username, password) ==
    LET route == RouteFor("POST", "/login")
        answer == LoginResponse(username, password)
    IN /\ greq = None
       /\ greq' = Some(ServedForm(route, cred, GatesOf(route, cred),
                                  [username |-> username, password |-> password], answer))
       /\ tok' = IF answer.cookie # None THEN answer.cookie ELSE tok
       /\ UNCHANGED <<now, jwtSecret, tokIssue, vres, storeVars, reqs, pcall, boot>>

NextLogin ==
    \/ TickSecond /\ UNCHANGED <<jwtSecret, tokenVars, storeVars, reqs, greq, pcall, boot>>
    \/ \E cred \in LiveCredentials, username \in Usernames, password \in LoginPasswords :
        PostLogin(cred, username, password)
    \/ \E cred \in LiveCredentials, currentPassword \in LoginPasswords,
          newPassword \in NewPasswords, confirmPassword \in NewPasswords,
          dbErr \in BOOLEAN :
            PostChangePassword(cred, currentPassword, newPassword, confirmPassword, dbErr)
    \/ Done

SpecLogin == InitGate /\ [][NextLogin]_vars

\* the one answer to a login that fails
InvalidCredentials == RedirectError("/login", "Invalid credentials")

\* C36: Login is dispatched whatever the request carries; it sets the token
\* cookie exactly when the username has a row and the password matches that
\* row's hash, and the token then validates as that identity's; in every other
\* case, unknown username or wrong password alike, the answer is the one
\* redirect to /login with the error "Invalid credentials" and no cookie, and
\* the client's cookie and the users table are as they were.
C36_LoginUniformFailure ==
    [][\A r \in greq' :
        (ServedNow(r) /\ r.route = RouteFor("POST", "/login")) =>
            /\ Dispatched(r)
            /\ r.answer # None
            /\ users' = users
            /\ LET a == The(r.answer)
                   match == {u \in users : /\ u.Username = r.form.username
                                           /\ u.PasswordHash = Bcrypt(r.form.password)}
               IN /\ a.cookie # None <=> match # {}
                  /\ a.cookie # None =>
                        /\ tok' = a.cookie
                        /\ \A t \in a.cookie :
                            /\ ValidateToken(t, now).err = "nil"
                            /\ \E u \in match :
                                The(ValidateToken(t, now).claims).UserID = u.ID
                  /\ a.cookie = None =>
                        /\ a = InvalidCredentials
                        /\ tok' = tok]_vars

\* a login with the username of a row and the password the row had before it
\* was changed is answered like a login with an unknown username
C36_Witness ==
    \E r \in greq :
        /\ r.route = RouteFor("POST", "/login")
        /\ FindUser(r.form.username) # {}
        /\ r.form.password = "secret"
        /\ \A u \in FindUser(r.form.username) : u.PasswordHash = Bcrypt("secret2")
        /\ r.answer = Some(InvalidCredentials)

----------------------------------------------------------------------------
(* handlers/supervisor.go: team assignments and the supervisor's views *)

\* how many team_supervisors rows are ever created
MaxAssignments == 2

\* the Supervisor role and its predicate on models.User
RoleSupervisor == "SUPERVISOR"
IsSupervisor(u) == u.Role = RoleSupervisor

\* the rows of the teams and of the projects tables
TeamIDs == {1, 2}
ProjectIDs == {1, 2}

\* strconv.Atoi on the month and year parameters; None is the error
Atoi(str) ==
    IF str = "5" THEN Some(5)
    ELSE IF str = "6" THEN Some(6)
    ELSE IF str = "2024" THEN Some(2024)
    ELSE None

\* the year and the month of the one date ParseDate admits
DateYear(date) == 2024
DateMonth(date) == 5

\* the auto-increment primary key; soft-deleted rows keep theirs
NextAssignmentID == Cardinality(team_supervisors) + 1

\* Where("user_id = ?", userID).Find(&assignments): soft-deleted rows are not found
Assignments(userID) == {a \in team_supervisors : a.UserID = userID /\ ~a.deleted}

\* AssignSupervisor: the table after the handler ran for the context identity
AssignSupervisor(user, userIDStr, teamIDStr, dbErr) ==
    IF ~IsAdmin(user) THEN team_supervisors
    ELSE IF ParseUint(userIDStr) = None THEN team_supervisors
    ELSE IF ParseUint(teamIDStr) = None THEN team_supervisors
    ELSE LET userID == The(ParseUint(userIDStr))
             teamID == The(ParseUint(teamIDStr)) IN
         IF FirstUser(userID) = {} THEN team_supervisors
         ELSE IF \E supervisor \in FirstUser(userID) :
                    ~IsSupervisor(supervisor) \/ supervisor.ProjectID = None
         THEN team_supervisors
         ELSE IF {a \in Assignments(userID) : a.TeamID = teamID} # {}
         THEN team_supervisors
         ELSE IF dbErr THEN team_supervisors
         ELSE team_supervisors \cup {[ID |-> NextAssignmentID, UserID |-> userID,
                                      TeamID |-> teamID, deleted |-> FALSE]}

\* RemoveSupervisorAssignment: Delete(&models.TeamSupervisor{}, id) sets deleted_at
RemoveSupervisorAssignment(user, idStr) ==
    IF ~IsAdmin(user) THEN team_supervisors
    ELSE IF ParseUint(idStr) = None THEN team_supervisors
    ELSE {IF a.ID = The(ParseUint(idStr)) THEN [a EXCEPT !.deleted = TRUE] ELSE a :
            a \in team_supervisors}

\* getAuthorizedTeams: the assignments whose team row was preloaded
getAuthorizedTeams(userID) == {a.TeamID : a \in Assignments(userID)} \cap TeamIDs

getAuthorizedTeamIDs(userID) == {a.TeamID : a \in Assignments(userID)}

\* mutant: the team_id parameter is taken as it parses, assigned or not
ScopedEntries_TrustsTeamParam(user, authorizedTeamIDs, teamIDStr) ==
    LET selectedTeamID ==
            IF teamIDStr # "" /\ ParseUint(teamIDStr) # None
            THEN The(ParseUint(teamIDStr)) ELSE 0
    IN {e \in entries :
            /\ ~e.deleted
            /\ \E u \in users :
                /\ u.ID = e.UserID
                /\ u.ProjectID = user.ProjectID
                /\ u.TeamID # None
                /\ IF selectedTeamID > 0 THEN The(u.TeamID) = selectedTeamID
                                         ELSE The(u.TeamID) \in authorizedTeamIDs}

\* the query both views build: overtime_entries joined with users, the
\* supervisor's project, and the selected team if it is an authorized one,
\* all authorized teams otherwise
ScopedEntries(user, authorizedTeamIDs, teamIDStr) ==
    LET selectedTeamID ==
            IF /\ teamIDStr # ""
               /\ ParseUint(teamIDStr) # None
               /\ The(ParseUint(teamIDStr)) \in authorizedTeamIDs
            THEN The(ParseUint(teamIDStr)) ELSE 0
    IN {e \in entries :
            /\ ~e.deleted
            /\ \E u \in users :
                /\ u.ID = e.UserID
                /\ u.ProjectID = user.ProjectID
                /\ u.TeamID # None
                /\ IF selectedTeamID > 0 THEN The(u.TeamID) = selectedTeamID
                                         ELSE The(u.TeamID) \in authorizedTeamIDs}

\* the month and the year a parameter selects, 0 when it selects none
SelectedMonth(monthStr) ==
    IF Atoi(monthStr) # None /\ The(Atoi(monthStr)) >= 1 /\ The(Atoi(monthStr)) <= 12
    THEN The(Atoi(monthStr)) ELSE 0
SelectedYear(yearStr) ==
    IF Atoi(yearStr) # None /\ The(Atoi(yearStr)) >= 2000 /\ The(Atoi(yearStr)) <= 2100
    THEN The(Atoi(yearStr)) ELSE 0

\* the date filters of the dashboard
InPeriod(e, monthStr, yearStr) ==
    LET m == SelectedMonth(monthStr)
        y == SelectedYear(yearStr) IN
    IF m > 0 /\ y > 0 THEN DateYear(e.Date) = y /\ DateMonth(e.Date) = m
    ELSE IF m > 0 THEN DateMonth(e.Date) = m
    ELSE IF y > 0 THEN DateYear(e.Date) = y
    ELSE TRUE

\* what a view answers: the response and the entries on it
View(resp, rows) == [resp |-> resp, entries |-> rows]

\* SupervisorDashboard for the context identity `user`
SupervisorDashboard(user, teamIDStr, monthStr, yearStr) ==
    IF ~IsSupervisor(user) THEN View(HttpError(403, "Forbidden"), {})
    ELSE IF user.ProjectID = None THEN View(Rendered("supervisor-dashboard"), {})
    ELSE IF getAuthorizedTeams(user.ID) = {} THEN View(Rendered("supervisor-dashboard"), {})
    ELSE View(Rendered("supervisor-dashboard"),
              {e \in ScopedEntries(user, getAuthorizedTeamIDs(user.ID), teamIDStr) :
                    InPeriod(e, monthStr, yearStr)})

\* SupervisorExportCSV for the context identity `user`
SupervisorExportCSV(user, teamIDStr, monthStr, yearStr) ==
    IF ~IsSupervisor(user) THEN View(HttpError(403, "Forbidden"), {})
    ELSE IF user.ProjectID = None THEN View(HttpError(403, "No project assigned"), {})
    ELSE IF SelectedMonth(monthStr) = 0 THEN View(BadRequest("Invalid month"), {})
    ELSE IF SelectedYear(yearStr) = 0 THEN View(BadRequest("Invalid year"), {})
    ELSE IF getAuthorizedTeamIDs(user.ID) = {} THEN View(HttpError(403, "No teams assigned"), {})
    ELSE View(Rendered("csv"),
              {e \in ScopedEntries(user, getAuthorizedTeamIDs(user.ID), teamIDStr) :
                    /\ DateYear(e.Date) = SelectedYear(yearStr)
                    /\ DateMonth(e.Date) = SelectedMonth(monthStr)})

\* an account with an affiliation
Member(id, username, role, team, project) ==
    [ID |-> id, Username |-> username, PasswordHash |-> Bcrypt("secret"),
     Role |-> role, MustChangePassword |-> FALSE, fromInvite |-> "",
     FullName |-> username, TeamID |-> team, ProjectID |-> project]

\* an entry of 8 hours on the one date
EntryOf(id, userID) ==
    [ID |-> id, UserID |-> userID, Date |-> "2024-05-01", Hours |-> 8, deleted |-> FALSE]

\* the administrator, a supervisor with or without a project, and two
\* employees with their teams and projects, each of the three with an entry
InitSupervisor ==
    /\ now = 0
    /\ jwtSecret = "s1"
    /\ tok = None
    /\ tokIssue = None
    /\ vres = None
    /\ \E p2 \in {None} \cup {Some(p) : p \in ProjectIDs},
          t3 \in {Some(t) : t \in TeamIDs}, p3 \in {Some(p) : p \in ProjectIDs},
          t4 \in {None} \cup {Some(t) : t \in TeamIDs}, p4 \in {None, Some(1)} :
        users = {ChangedAdmin, Member(2, "sue", RoleSupervisor, None, p2),
                 Member(3, "alice", RoleEmployee, t3, p3),
                 Member(4, "bob", RoleEmployee, t4, p4)}
    /\ invites = {}
    /\ reqs = <<>>
    /\ greq = None
    /\ pcall = None
    /\ boot = Started(jwtSecret)
    /\ entries = {EntryOf(1, 2), EntryOf(2, 3), EntryOf(3, 4)}
    /\ team_supervisors = {}

\* the record of a request served by a handler of SupervisorHandler
ServedView(handler, user, form, answer) ==
    [handler |-> handler, user |-> Some(user), at |-> now, form |-> form,
     answer |-> Some(answer)]

\* a request dispatched to AssignSupervisor with `user` in its context
PostAssign(user, userIDStr, teamIDStr, dbErr) ==
    /\ greq = None
    /\ Cardinality(team_supervisors) < MaxAssignments
    /\ team_supervisors' = AssignSupervisor(user, userIDStr, teamIDStr, dbErr)
    /\ UNCHANGED <<now, jwtSecret, tokenVars, users, invites, entries, reqs, greq, pcall, boot>>

\* a request dispatched to RemoveSupervisorAssignment
PostRemove(user, idStr) ==
    /\ greq = None
    /\ team_supervisors' = RemoveSupervisorAssignment(user, idStr)
    /\ UNCHANGED <<now, jwtSecret, tokenVars, users, invites, entries, reqs, greq, pcall, boot>>

\* a request dispatched to SupervisorDashboard
GetSupervisorDashboard(user, teamIDStr, monthStr, yearStr) ==
    /\ greq = None
    /\ greq' = Some(ServedView("SupervisorDashboard", user,
                               [team_id |-> teamIDStr, month |-> monthStr, year |-> yearStr],
                               SupervisorDashboard(user, teamIDStr, monthStr, yearStr)))
    /\ UNCHANGED <<now, jwtSecret, tokenVars, storeVars, reqs, pcall, boot>>

\* a request dispatched to SupervisorExportCSV
GetSupervisorExportCSV(user, teamIDStr, monthStr, yearStr) ==
    /\ greq = None
    /\ greq' = Some(ServedView("SupervisorExportCSV", user,
                               [team_id |-> teamIDStr, month |-> monthStr, year |-> yearStr],
                               SupervisorExportCSV(user, teamIDStr, monthStr, yearStr)))
    /\ UNCHANGED <<now, jwtSecret, tokenVars, storeVars, reqs, pcall, boot>>

\* the team_id, month and year parameters
TeamIDStrings == {"", "1", "2", "x"}
Periods == {<<"", "">>, <<"5", "2024">>, <<"6", "2024">>, <<"5", "">>}

NextSupervisor ==
    \/ \E user \in users, userIDStr \in {"2", "3"}, teamIDStr \in {"1", "2"},
          dbErr \in BOOLEAN : PostAssign(user, userIDStr, teamIDStr, dbErr)
    \/ \E user \in users, idStr \in {"1", "2", "3"} : PostRemove(user, idStr)
    \/ \E user \in users, teamIDStr \in TeamIDStrings, period \in Periods :
        GetSupervisorDashboard(user, teamIDStr, period[1], period[2])
    \/ \E user \in users, teamIDStr \in TeamIDStrings, period \in Periods :
        GetSupervisorExportCSV(user, teamIDStr, period[1], period[2])
    \/ Done

SpecSupervisor == InitSupervisor /\ [][NextSupervisor]_vars

\* the teams currently assigned to the supervisor u
AssignedTeams(u) == {a.TeamID : a \in {b \in team_supervisors : b.UserID = u.ID /\ ~b.deleted}}

\* the entries of users in u's project and in a team assigned to u
InScope(u) ==
    {e \in entries :
        \E v \in users : /\ v.ID = e.UserID
                         /\ u.ProjectID # None /\ v.ProjectID = u.ProjectID
                         /\ v.TeamID # None /\ The(v.TeamID) \in AssignedTeams(u)}

\* C38: every entry on the supervisor dashboard or in the supervisor's export
\* is the entry of a user in the viewer's own project and in a team currently
\* assigned to the viewer; a viewer who is no supervisor, has no project or no
\* assigned team (or, for the export, names no valid month and year) is shown
\* none; a team_id that names no team assigned to the viewer gets the entries
\* of all assigned teams, as the request without team_id does; and a team_id
\* that names an assigned team gets that team's entries among them.
C38_SupervisorScope ==
    [][\A r \in greq' :
        (ServedNow(r) /\ r.handler \in {"SupervisorDashboard", "SupervisorExportCSV"}) =>
            \A u \in r.user :
                LET shown == The(r.answer).entries
                    tid == ParseUint(r.form.team_id)
                    assigned == tid # None /\ tid \subseteq AssignedTeams(u)
                    period == {e \in InScope(u) : InPeriod(e, r.form.month, r.form.year)}
                    refused ==
                        \/ u.Role # RoleSupervisor
                        \/ u.ProjectID = None
                        \/ AssignedTeams(u) = {}
                        \/ /\ r.handler = "SupervisorExportCSV"
                           /\ (SelectedMonth(r.form.month) = 0 \/ SelectedYear(r.form.year) = 0)
                IN /\ shown \subseteq InScope(u)
                   /\ refused => shown = {}
                   /\ (~refused /\ ~assigned) => shown = period
                   /\ (~refused /\ assigned) =>
                        shown = {e \in period : \E v \in users : v.ID = e.UserID /\ v.TeamID = tid}]_vars

\* the supervisor asked for team 2, which is not assigned to them, and was
\* shown the entries of the assigned team only, while a user of the same
\* project in team 2 has an entry
C38_Witness ==
    \E r \in greq :
        /\ r.handler = "SupervisorDashboard"
        /\ r.form.team_id = "2"
        /\ \E u \in r.user :
            /\ u.Role = RoleSupervisor
            /\ 2 \notin AssignedTeams(u)
            /\ The(r.answer).entries # {}
            /\ \E e \in entries, v \in users :
                /\ v.ID = e.UserID /\ v.ProjectID = u.ProjectID /\ v.TeamID = Some(2)
                /\ e \notin The(r.answer).entries

====
